---- MODULE Spec2Model ----
(***************************************************************************)
(* State-machine model of userspace/py/bin/panel.py: the panel, wallpaper, *)
(* alt-tab switcher and application runner of the desktop shell, and the   *)
(* dispatch loop that routes every protocol message to them.               *)
(*                                                                         *)
(* Conventions.  Python lists are sequences; a Python index i is the       *)
(* sequence index i+1.  Strings that the code slices or compares are       *)
(* sequences of one-character strings.  `calls' is the ordered log of the  *)
(* side-effecting calls made by the handler of the last message, `last'    *)
(* is that message.  An uncaught Python exception ends the process:        *)
(* running = "crashed", with the globals as they were at the raise.        *)
(***************************************************************************)
EXTENDS Integers, Sequences, FiniteSets, TLC

VARIABLES
    running,          \* "run" | "ended" (session end) | "crashed" (uncaught exception)
    windows_zorder,   \* global windows_zorder: wids in the server's z-order
    windows,          \* global windows: the same wids sorted
    tabbing,          \* global tabbing
    new_focused,      \* global new_focused (Python index, -1 = none)
    alttab,           \* global alttab: "none" | "open" | "closed"
    app_runner,       \* global app_runner (open = FALSE models None)
    menus,            \* panel.menus: wids of the open menus
    visible,          \* panel.visible
    widgets,          \* panel.widgets: [kind, width] records, left to right
    panel_width,      \* panel.width
    focused_widget,   \* panel.focused_widget: an index into widgets, or None
    hilit,            \* the widgets whose focus_enter highlight is on
    drawn,            \* what the last panel.draw() passed to each widget's draw
    wl,               \* WindowListWidget: hovered, unit_width, offset
    vol,              \* VolumeWidget: volume, muted, previous_volume
    mixer,            \* the master volume held by /dev/mixer
    hovered_menu,     \* panel.hovered_menu: a menu wid or "none"
    wall_height,      \* wallpaper.height
    focused_icon,     \* wallpaper.focused_icon: an index into the icons, or None
    icon_hilit,       \* the icons whose hilighted flag is set
    animations,       \* wallpaper.animations: key -> start time, NoAnim if absent
    background,       \* wallpaper.background (an image id)
    new_background,   \* wallpaper.new_background (an image id)
    now,              \* time.time(), in quarter seconds
    current_time,     \* global current_time: the second of the last clock repaint
    last,             \* the message handled last
    calls,            \* the calls its handler made, in order
    forwarded         \* of these, the calls the dispatch loop itself made

dispVars == <<running, windows_zorder, windows, tabbing, new_focused, alttab,
              app_runner, menus, visible>>

panelVars == <<widgets, panel_width, focused_widget, hilit, drawn, wl>>

volVars == <<vol, mixer>>

wallVars == <<wall_height, focused_icon, icon_hilit, animations, background,
              new_background, now, current_time>>

vars == <<running, windows_zorder, windows, tabbing, new_focused, alttab, app_runner,
          menus, visible, widgets, panel_width, focused_widget, hilit, drawn, wl, vol,
          mixer,
          hovered_menu, wall_height, focused_icon, icon_hilit, animations, background,
          new_background, now, current_time, last, calls, forwarded>>

(***************************************************************************)
(* Bounds of the model.                                                    *)
(***************************************************************************)
MaxWindows == 3      \* window ids are 1..MaxWindows
MaxTyped == 2        \* longest text typed into the application runner
NumIcons == 3        \* lines of the desktop icon list
DisplayWidth == 640  \* display_width reported by the server
DisplayHeight == 220 \* display_height reported by the server
MaxWidgets == 3      \* longest widget sequence of the layout specification
MaxWidth == 5        \* widest surface of the layout specification
MaxTime == 6         \* last quarter second of the clock

(***************************************************************************)
(* Generic helpers.                                                        *)
(***************************************************************************)
Call(op, arg) == [op |-> op, arg |-> arg]

Called(op) == \E i \in 1..Len(calls) : calls[i].op = op

CalledIn(cs, op) == \E i \in 1..Len(cs) : cs[i].op = op

CalledWith(op, arg) == \E i \in 1..Len(calls) : calls[i].op = op /\ calls[i].arg = arg

\* Python's seq[i]: valid for -len <= i < len, negative i counts from the end.
PyIndexOk(s, i) == -Len(s) <= i /\ i < Len(s)

PyIndex(s, i) == IF i >= 0 THEN s[i + 1] ELSE s[Len(s) + i + 1]

\* int(a / b) for b > 0: true division, then truncation toward zero.
TruncDiv(a, b) == IF a >= 0 THEN a \div b ELSE -((-a) \div b)

RECURSIVE SeqSum(_)
SeqSum(s) == IF s = <<>> THEN 0 ELSE Head(s) + SeqSum(Tail(s))

Range(s) == {s[i] : i \in 1..Len(s)}

(***************************************************************************)
(* Window ids of this client's surfaces, as they appear in msg.wid.        *)
(***************************************************************************)
PanelWid == "panel"
WallpaperWid == "wallpaper"
RunnerWid == "app_runner"
MenuWid == "menu"
OtherWid == "other"

(***************************************************************************)
(* update_window_list and the two derived views.                           *)
(***************************************************************************)
RECURSIVE InsertByWid(_, _)
InsertByWid(w, s) ==
    IF s = <<>> THEN <<w>>
    ELSE IF w < Head(s) THEN <<w>> \o s
    ELSE <<Head(s)>> \o InsertByWid(w, Tail(s))

\* The list left as the server reported it.
SortedByWid_unsorted(s) == s

\* sorted(windows_zorder, key=lambda window: window.wid)
RECURSIVE SortedByWid(_)
SortedByWid(s) ==
    IF s = <<>> THEN <<>>
    ELSE InsertByWid(s[Len(s)], SortedByWid(SubSeq(s, 1, Len(s) - 1)))

\* The advertisements a directory query can return before the zero-size
\* terminator: every window once, in z-order.
ZLists == UNION {{s \in [1..n -> 1..MaxWindows] :
                    \A i, j \in 1..n : i # j => s[i] # s[j]} : n \in 0..MaxWindows}

\* window.name, as the advertisements of the directory query carry it and
\* the window list widget shows it: here the window created first is the
\* terminal, the second the calculator, the third the launcher.
WindowName(w) == <<<<"t">>, <<"c">>, <<"l">>, <<"n">>>>[w]

(***************************************************************************)
(* Alt-tab.                                                                *)
(***************************************************************************)
\* The new index clamped to the list instead of wrapped around it.
WrapIndex_clamp(nf, n) ==
    IF nf < 0 THEN 0
    ELSE IF nf >= n THEN n - 1
    ELSE nf

\* alt_tab, lines 953-956: the wrap of the new index.
WrapIndex(nf, n) ==
    IF nf < 0 THEN n - 1
    ELSE IF nf >= n THEN 0
    ELSE nf

\* alt_tab without the early return of lines 943-944.
alt_tab_unguarded(msg) ==
    LET direction == IF "LEFT_SHIFT" \in msg.modifiers THEN 1 ELSE -1
        n == Len(windows_zorder)
        nf == IF tabbing THEN new_focused + direction ELSE n - 1 + direction
        wrapped == WrapIndex(nf, n)
    IN  [tabbing |-> TRUE, new_focused |-> wrapped, alttab |-> "open",
         calls |-> (IF tabbing THEN <<>> ELSE <<Call("AlttabWindow", 0)>>)
                   \o <<Call("alttab.draw", wrapped)>>]

\* alt_tab(msg): the new tab-switch state and the calls made.
alt_tab(msg) ==
    LET direction == IF "LEFT_SHIFT" \in msg.modifiers THEN 1 ELSE -1
        n == Len(windows_zorder)
    IN  IF n < 1
        THEN [tabbing |-> tabbing, new_focused |-> new_focused, alttab |-> alttab,
              calls |-> <<>>]
        ELSE LET nf == IF tabbing THEN new_focused + direction ELSE n - 1 + direction
                 wrapped == WrapIndex(nf, n)
             IN  [tabbing |-> TRUE, new_focused |-> wrapped, alttab |-> "open",
                  calls |-> (IF tabbing THEN <<>> ELSE <<Call("AlttabWindow", 0)>>)
                            \o <<Call("alttab.draw", wrapped)>>]

\* finish_alt_tab without its last line, alttab.close().
finish_alt_tab_no_close ==
    IF PyIndexOk(windows_zorder, new_focused)
    THEN [raised |-> FALSE, tabbing |-> FALSE, new_focused |-> -1, alttab |-> alttab,
          calls |-> <<Call("focus_window", PyIndex(windows_zorder, new_focused))>>]
    ELSE [raised |-> TRUE, tabbing |-> tabbing, new_focused |-> new_focused,
          alttab |-> alttab, calls |-> <<>>]

\* finish_alt_tab(msg): windows_zorder[new_focused] raises IndexError when the
\* index is outside the list; nothing after it runs then.
finish_alt_tab ==
    IF PyIndexOk(windows_zorder, new_focused)
    THEN [raised |-> FALSE, tabbing |-> FALSE, new_focused |-> -1, alttab |-> "closed",
          calls |-> <<Call("focus_window", PyIndex(windows_zorder, new_focused)),
                      Call("alttab.close", 0)>>]
    ELSE [raised |-> TRUE, tabbing |-> tabbing, new_focused |-> new_focused,
          alttab |-> alttab, calls |-> <<>>]

(***************************************************************************)
(* Application runner.  Text is a sequence of characters; CodeOrder lists  *)
(* the characters of the model by ascending code point, which is the order *)
(* Python's str comparison (and so sorted) uses.                           *)
(***************************************************************************)
CodeOrder == <<"\t", "a", "c", "l", "n", "s", "t">>

Ord(c) == CHOOSE i \in 1..Len(CodeOrder) : CodeOrder[i] = c

\* Python's a < b on str.
RECURSIVE StrLess(_, _)
StrLess(a, b) ==
    IF b = <<>> THEN FALSE
    ELSE IF a = <<>> THEN TRUE
    ELSE IF Ord(Head(a)) < Ord(Head(b)) THEN TRUE
    ELSE IF Ord(Head(a)) > Ord(Head(b)) THEN FALSE
    ELSE StrLess(Tail(a), Tail(b))

RECURSIVE InsertStr(_, _)
InsertStr(b, s) ==
    IF s = <<>> THEN <<b>>
    ELSE IF StrLess(b, Head(s)) THEN <<b>> \o s
    ELSE <<Head(s)>> \o InsertStr(b, Tail(s))

\* sorted(self.bins)
RECURSIVE SortedBins(_)
SortedBins(bins) ==
    IF bins = <<>> THEN <<>>
    ELSE InsertStr(bins[Len(bins)], SortedBins(SubSeq(bins, 1, Len(bins) - 1)))

\* b.startswith(data)
StartsWith(b, data) == Len(b) >= Len(data) /\ SubSeq(b, 1, Len(data)) = data

\* A scan in the order os.listdir gave the names (sorted dropped).
ScanOrder_listdir(bins) == bins

\* The order in which try_complete scans the executables.
ScanOrder(bins) == SortedBins(bins)

\* try_complete, lines 813-819: the first name of the scan with the prefix.
RECURSIVE ScanBins(_, _)
ScanBins(s, data) ==
    IF s = <<>> THEN [complete |-> <<>>, completed |-> FALSE]
    ELSE IF StartsWith(Head(s), data)
         THEN [complete |-> SubSeq(Head(s), Len(data) + 1, Len(Head(s))), completed |-> TRUE]
         ELSE ScanBins(Tail(s), data)

\* try_complete without the branch for an empty text.
try_complete_no_clear(r) ==
    LET c == ScanBins(ScanOrder(r.bins), r.data)
    IN  IF r.data = <<>> THEN r
        ELSE [r EXCEPT !.complete = c.complete, !.completed = c.completed]

\* try_complete that keeps the old suggestion when no name matches.
try_complete_keep(r) ==
    LET c == ScanBins(ScanOrder(r.bins), r.data)
    IN  IF r.data = <<>>
        THEN [r EXCEPT !.complete = <<>>, !.completed = FALSE]
        ELSE IF c.completed
        THEN [r EXCEPT !.complete = c.complete, !.completed = TRUE]
        ELSE r

\* ApplicationRunnerWindow.try_complete, lines 808-819.
try_complete(r) ==
    IF r.data = <<>>
    THEN [r EXCEPT !.complete = <<>>, !.completed = FALSE]
    ELSE LET c == ScanBins(ScanOrder(r.bins), r.data)
         IN  [r EXCEPT !.complete = c.complete, !.completed = c.completed]

NoRunner == [bins |-> <<>>, data |-> <<>>, complete |-> <<>>, completed |-> FALSE,
             open |-> FALSE]

\* ApplicationRunnerWindow.__init__: listing is what os.listdir returns for
\* the directories of PATH, concatenated.
NewRunner(listing) == [bins |-> listing, data |-> <<>>, complete |-> <<>>,
                       completed |-> FALSE, open |-> TRUE]

\* key_action with an Enter that launches the typed text alone.
key_action_typed_only(r, msg) ==
    IF msg.action # "DOWN" THEN [runner |-> r, calls |-> <<>>]
    ELSE IF msg.keycode = "ESCAPE"
    THEN [runner |-> NoRunner, calls |-> <<Call("app_runner.close", 0)>>]
    ELSE IF msg.keycode = "DEL"
    THEN [runner |-> [r EXCEPT !.complete = <<>>, !.completed = FALSE],
          calls |-> <<Call("app_runner.draw", 0)>>]
    ELSE IF msg.key = "NUL" THEN [runner |-> r, calls |-> <<>>]
    ELSE IF msg.key = "\n"
    THEN [runner |-> NoRunner,
          calls |-> (IF r.data # <<>>
                     THEN <<Call("launch_app",
                                 [item |-> r.data,
                                  terminal |-> "LEFT_SHIFT" \in msg.modifiers])>>
                     ELSE <<>>)
                    \o <<Call("app_runner.close", 0)>>]
    ELSE IF msg.key = "BS"
    THEN [runner |-> IF r.data # <<>>
                     THEN try_complete([r EXCEPT !.data = SubSeq(r.data, 1, Len(r.data) - 1)])
                     ELSE r,
          calls |-> <<Call("app_runner.draw", 0)>>]
    ELSE [runner |-> try_complete([r EXCEPT !.data = r.data \o <<msg.key>>]),
          calls |-> <<Call("app_runner.draw", 0)>>]

\* ApplicationRunnerWindow.key_action(msg): the runner afterwards (NoRunner
\* once close() has cleared the global) and the calls made.
key_action(r, msg) ==
    IF msg.action # "DOWN" THEN [runner |-> r, calls |-> <<>>]
    ELSE IF msg.keycode = "ESCAPE"
    THEN [runner |-> NoRunner, calls |-> <<Call("app_runner.close", 0)>>]
    ELSE IF msg.keycode = "DEL"
    THEN [runner |-> [r EXCEPT !.complete = <<>>, !.completed = FALSE],
          calls |-> <<Call("app_runner.draw", 0)>>]
    ELSE IF msg.key = "NUL" THEN [runner |-> r, calls |-> <<>>]
    ELSE IF msg.key = "\n"
    THEN [runner |-> NoRunner,
          calls |-> (IF r.data # <<>>
                     THEN <<Call("launch_app",
                                 [item |-> r.data \o r.complete,
                                  terminal |-> "LEFT_SHIFT" \in msg.modifiers])>>
                     ELSE <<>>)
                    \o <<Call("app_runner.close", 0)>>]
    ELSE IF msg.key = "BS"
    THEN [runner |-> IF r.data # <<>>
                     THEN try_complete([r EXCEPT !.data = SubSeq(r.data, 1, Len(r.data) - 1)])
                     ELSE r,
          calls |-> <<Call("app_runner.draw", 0)>>]
    ELSE [runner |-> try_complete([r EXCEPT !.data = r.data \o <<msg.key>>]),
          calls |-> <<Call("app_runner.draw", 0)>>]

\* Whether key_action appends msg.key to the typed text.
IsInsert(msg) ==
    /\ msg.action = "DOWN"
    /\ msg.keycode \notin {"ESCAPE", "DEL"}
    /\ msg.key \notin {"NUL", "\n", "BS"}

(***************************************************************************)
(* Panel: layout.                                                          *)
(***************************************************************************)
PANEL_HEIGHT == 28

\* m.width and m.height of a menu's surface, line 1110: the size the menu
\* gave itself when it opened.
MENU_WIDTH == 200
MENU_HEIGHT == 100

\* None, for a widget index, a window id or a tile width (all of which are
\* at least 1 when set).
None == 0

\* widgets = [appmenu, WindowListWidget(), VolumeWidget(), DateWidget(),
\*            ClockWidget(), LogOutWidget()]
ProgramWidgets ==
    << [kind |-> "appmenu", width |-> 140], [kind |-> "windowlist", width |-> -1],
       [kind |-> "volume", width |-> 28], [kind |-> "date", width |-> 70],
       [kind |-> "clock", width |-> 80], [kind |-> "logout", width |-> 28] >>

\* The sum taken from the current widget on (widgets[index-1:]).
SumAfter_from_current(ws, index) ==
    SeqSum([k \in 1..(Len(ws) - index + 1) |-> ws[index - 1 + k].width])

\* sum([widget.width for widget in self.widgets[index:]])
SumAfter(ws, index) ==
    SeqSum([k \in 1..(Len(ws) - index) |-> ws[index + k].width])

\* The whole surface width, the widths after the widget not taken off.
Remaining_whole(ws, W, index) ==
    IF ws[index].width # -1 THEN 0 ELSE W

\* remaining = 0 if widget.width != -1 else self.width - sum(...)
Remaining(ws, W, index) ==
    IF ws[index].width # -1 THEN 0 ELSE W - SumAfter(ws, index)

\* PanelWindow.draw, lines 398-404: the (offset, remaining) each widget is
\* drawn with and the offset the walk continues from (the extent's end).
\* past is the number of widgets already past.
RECURSIVE DrawLoop(_, _, _, _)
DrawLoop(ws, W, past, offset) ==
    IF past >= Len(ws) THEN <<>>
    ELSE LET index == past + 1
             remaining == Remaining(ws, W, index)
             next == IF ws[index].width # -1 THEN offset + ws[index].width ELSE remaining
         IN  <<[offset |-> offset, remaining |-> remaining, right |-> next]>>
             \o DrawLoop(ws, W, index, next)

DrawExtents(ws, W) == DrawLoop(ws, W, 0, 0)

\* A right edge one pixel further than the one draw walks on from.
HitRight_inclusive(ws, W, index, offset) ==
    1 + (IF ws[index].width # -1 THEN offset + ws[index].width
         ELSE Remaining(ws, W, index))

\* The right edge mouse_action tests the pointer against, line 429.
HitRight(ws, W, index, offset) ==
    IF ws[index].width # -1 THEN offset + ws[index].width ELSE Remaining(ws, W, index)

\* PanelWindow.mouse_action, lines 423-432: the widget under the pointer
\* (None when the loop ends without a hit).  seen is the number of widgets
\* already passed.
RECURSIVE HitLoop(_, _, _, _, _)
HitLoop(ws, W, x, seen, offset) ==
    IF seen >= Len(ws) THEN None
    ELSE LET index == seen + 1
             right == HitRight(ws, W, index, offset)
         IN  IF x >= offset /\ x < right THEN index
             ELSE HitLoop(ws, W, x, index,
                          IF ws[index].width # -1 THEN offset + ws[index].width
                          ELSE Remaining(ws, W, index))

WidgetUnderMouse(ws, W, x) == HitLoop(ws, W, x, 0, 0)

(***************************************************************************)
(* Panel: the widgets' capabilities.                                       *)
(***************************************************************************)
Min(a, b) == IF a < b THEN a ELSE b

\* WindowListWidget.draw, lines 222-231: the tile width and offset kept for
\* mouse_action.
WindowListDraw(w, offset, remaining, wins) ==
    IF Len(wins) = 0 THEN w
    ELSE LET available_width == remaining - offset
             unit == Min(TruncDiv(available_width, Len(wins)), 150)
         IN  [w EXCEPT !.offset = offset,
                       !.unit_width = IF unit < 50 THEN 28 ELSE unit]

\* PanelWindow.draw: what drawing every widget leaves in the window list
\* widget (no other widget keeps anything of a draw that a handler reads).
RECURSIVE DrawWidgets(_, _, _, _, _)
DrawWidgets(ws, args, i, w, wins) ==
    IF i > Len(ws) THEN w
    ELSE DrawWidgets(ws, args, i + 1,
                     IF ws[i].kind = "windowlist"
                     THEN WindowListDraw(w, args[i].offset, args[i].remaining, wins)
                     ELSE w,
                     wins)

PanelDraw(ws, W, w, wins) == DrawWidgets(ws, DrawExtents(ws, W), 1, w, wins)

\* The widget kinds whose focus_enter/focus_leave switch a highlight
\* (ClockWidget, LogOutWidget, ApplicationsMenuWidget); the others inherit
\* BaseWidget's empty focus_enter.
Highlights(kind) == kind \in {"clock", "logout", "appmenu"}

focus_enter(ws, i, h) == IF Highlights(ws[i].kind) THEN h \cup {i} ELSE h

\* A focus_leave that leaves the highlight on.
focus_leave_hilit_kept(ws, i, h) == h

\* focus_leave of the widget at index i (a highlight that is off stays off).
focus_leave_hilit(ws, i, h) == h \ {i}

\* WindowListWidget.focus_leave clears hovered.
focus_leave_wl(ws, i, w) ==
    IF ws[i].kind = "windowlist" THEN [w EXCEPT !.hovered = None] ELSE w

(***************************************************************************)
(* Volume widget.  A level is an unsigned 32-bit number held as its two    *)
(* 16-bit halves, [hi, lo] = hi * 2^16 + lo, which keeps every comparison  *)
(* and the step exact: 0x10000000 is [4096, 0].                            *)
(***************************************************************************)
Level(hi, lo) == [hi |-> hi, lo |-> lo]

LevelLess(a, b) == a.hi < b.hi \/ (a.hi = b.hi /\ a.lo < b.lo)

InU32(a) == a.hi \in 0..65535 /\ a.lo \in 0..65535

\* self.volume += 0x10000000 / self.volume -= 0x10000000
StepUp(a) == [a EXCEPT !.hi = @ + 4096]

StepDown(a) == [a EXCEPT !.hi = @ - 4096]

\* volume_up without its clamp.
volume_up_unclamped(v) == StepUp(v)

\* VolumeWidget.volume_up: the new self.volume.
volume_up(v) ==
    IF LevelLess(Level(57344, 0), v)      \* self.volume > 0xE0000000
    THEN Level(61440, 0)                  \* 0xF0000000
    ELSE StepUp(v)

\* VolumeWidget.volume_down: the new self.volume.
volume_down(v) ==
    IF LevelLess(v, Level(8192, 0))       \* self.volume < 0x20000000
    THEN Level(0, 0)
    ELSE StepDown(v)

\* A click that mutes without saving the level.
ToggleMute_no_save(v) ==
    IF v.muted
    THEN [v EXCEPT !.muted = FALSE, !.volume = v.previous_volume]
    ELSE [v EXCEPT !.muted = TRUE, !.volume = Level(0, 0)]

\* The click branch of VolumeWidget.mouse_action, lines 185-194.
ToggleMute(v) ==
    IF v.muted
    THEN [v EXCEPT !.muted = FALSE, !.volume = v.previous_volume]
    ELSE [v EXCEPT !.muted = TRUE, !.previous_volume = v.volume, !.volume = Level(0, 0)]

\* VolumeWidget.mouse_action(msg): the widget afterwards, whether
\* set_volume ran, and the value returned.
VolumeMouseAction(v, msg) ==
    IF msg.command = "CLICK"
    THEN [vol |-> ToggleMute(v), set |-> TRUE, ret |-> TRUE]
    ELSE IF "SCROLL_UP" \in msg.buttons
    THEN [vol |-> [v EXCEPT !.volume = volume_up(v.volume)], set |-> TRUE, ret |-> TRUE]
    ELSE IF "SCROLL_DOWN" \in msg.buttons
    THEN [vol |-> [v EXCEPT !.volume = volume_down(v.volume)], set |-> TRUE, ret |-> TRUE]
    ELSE [vol |-> v, set |-> FALSE, ret |-> FALSE]

(***************************************************************************)
(* Panel: mouse dispatch.                                                  *)
(***************************************************************************)
\* WindowListWidget.mouse_action(msg), lines 261-284.  raised: the division
\* by a unit_width that is still None, or an index outside windows.
WindowListMouseAction(w, msg, wins, ms) ==
    IF Len(wins) = 0
    THEN [wl |-> w, menus |-> ms, calls |-> <<>>, ret |-> FALSE, raised |-> FALSE]
    ELSE IF w.unit_width = None
    THEN [wl |-> w, menus |-> ms, calls |-> <<>>, ret |-> FALSE, raised |-> TRUE]
    ELSE LET new_x == msg.x - w.offset
             hovered_index == TruncDiv(new_x, w.unit_width)
         IN  IF hovered_index < Len(wins)
             THEN IF ~PyIndexOk(wins, hovered_index)
                  THEN [wl |-> w, menus |-> ms, calls |-> <<>>, ret |-> FALSE,
                        raised |-> TRUE]
                  ELSE LET h == PyIndex(wins, hovered_index)
                           menu == msg.command # "CLICK" /\ "BUTTON_RIGHT" \in msg.buttons
                                   /\ ms = {}
                       IN  [wl |-> [w EXCEPT !.hovered = h],
                            menus |-> IF menu THEN ms \cup {MenuWid} ELSE ms,
                            calls |-> IF msg.command = "CLICK"
                                      THEN <<Call("focus_window", h)>>
                                      ELSE IF menu THEN <<Call("MenuWindow", h)>>
                                      ELSE <<>>,
                            ret |-> h # w.hovered, raised |-> FALSE]
             ELSE [wl |-> [w EXCEPT !.hovered = None], menus |-> ms, calls |-> <<>>,
                   ret |-> None # w.hovered, raised |-> FALSE]

\* widget.mouse_action(msg) of the widget at index i: what it changes, the
\* calls it makes and the value it returns (None counts as False).
WidgetMouseAction(ws, i, msg, w, v, wins, ms) ==
    LET same == [wl |-> w, vol |-> v, set |-> FALSE, menus |-> ms, calls |-> <<>>,
                 ret |-> FALSE, raised |-> FALSE]
    IN  CASE ws[i].kind = "windowlist" ->
                LET r == WindowListMouseAction(w, msg, wins, ms)
                IN  [same EXCEPT !.wl = r.wl, !.menus = r.menus, !.calls = r.calls,
                                 !.ret = r.ret, !.raised = r.raised]
          [] ws[i].kind = "volume" ->
                LET r == VolumeMouseAction(v, msg)
                IN  [same EXCEPT !.vol = r.vol, !.set = r.set, !.ret = r.ret,
                                 !.calls = IF r.set THEN <<Call("set_volume", r.vol.volume)>>
                                           ELSE <<>>]
          [] ws[i].kind = "logout" ->
                [same EXCEPT !.calls = IF msg.command = "CLICK"
                                       THEN <<Call("session_end", 0)>> ELSE <<>>]
          [] ws[i].kind = "appmenu" ->
                IF msg.command = "CLICK"
                THEN [same EXCEPT !.menus = ms \cup {MenuWid},
                                  !.calls = <<Call("appmenu.activate", 0)>>]
                ELSE same
          [] OTHER -> same

\* A repaint whatever the widget's mouse_action returned.
Redraws_always(ret, raised) == IF raised THEN 0 ELSE 1

\* if widget_under_mouse.mouse_action(msg): self.draw(), lines 442-443.
Redraws(ret, raised) == IF ret /\ ~raised THEN 1 ELSE 0

\* PanelWindow.mouse_action(msg), lines 416-445.
PanelMouseAction(msg) ==
    LET same == [focused |-> focused_widget, hilit |-> hilit, wl |-> wl, vol |-> vol,
                 set |-> FALSE, menus |-> menus, calls |-> <<>>, raised |-> FALSE,
                 redraws |-> 0]
    IN  IF (msg.command = "LEAVE" \/ msg.y >= PANEL_HEIGHT) /\ focused_widget # None
        THEN [same EXCEPT !.focused = None,
                          !.hilit = focus_leave_hilit(widgets, focused_widget, hilit),
                          !.wl = focus_leave_wl(widgets, focused_widget, wl),
                          !.calls = <<Call("focus_leave", focused_widget)>>,
                          !.redraws = 1]
        ELSE IF msg.y < PANEL_HEIGHT
        THEN LET widget_under_mouse == WidgetUnderMouse(widgets, panel_width, msg.x)
             IN  IF widget_under_mouse # focused_widget
                 THEN LET h1 == IF focused_widget # None
                                THEN focus_leave_hilit(widgets, focused_widget, hilit)
                                ELSE hilit
                          w1 == IF focused_widget # None
                                THEN focus_leave_wl(widgets, focused_widget, wl)
                                ELSE wl
                      IN  [same EXCEPT
                             !.focused = widget_under_mouse,
                             !.hilit = IF widget_under_mouse # None
                                       THEN focus_enter(widgets, widget_under_mouse, h1)
                                       ELSE h1,
                             !.wl = w1,
                             !.calls = (IF focused_widget # None
                                        THEN <<Call("focus_leave", focused_widget)>>
                                        ELSE <<>>)
                                       \o (IF widget_under_mouse # None
                                           THEN <<Call("focus_enter", widget_under_mouse)>>
                                           ELSE <<>>),
                             !.redraws = IF focused_widget # None \/ widget_under_mouse # None
                                         THEN 1 ELSE 0]
                 ELSE IF widget_under_mouse # None
                 THEN LET r == WidgetMouseAction(widgets, widget_under_mouse, msg, wl, vol,
                                                 windows, menus)
                      IN  [same EXCEPT
                             !.wl = r.wl, !.vol = r.vol, !.set = r.set, !.menus = r.menus,
                             !.calls = <<Call("mouse_action", widget_under_mouse)>> \o r.calls,
                             !.raised = r.raised,
                             !.redraws = Redraws(r.ret, r.raised)]
                 ELSE same
        ELSE same

(***************************************************************************)
(* Wallpaper.                                                              *)
(***************************************************************************)
\* WallpaperIcon.width and WallpaperIcon.height.
ICON_WIDTH == 100
ICON_HEIGHT == 80

\* No entry for the key in wallpaper.animations (start times are >= 0).
NoAnim == -1

\* The key of the wallpaper itself in wallpaper.animations; icons are keyed
\* by their index 1..NumIcons.
SelfKey == 0

\* Elapsed quarter seconds at which draw finishes the cross-fade
\* (diff >= 1.0), and which a bounce must exceed to be dropped
\* (tick - start > 0.5).
CrossFadeTicks == 4
BounceTicks == 2

\* A column that ends one icon early.
Wraps_early(H, offset_y) == offset_y >= H - ICON_HEIGHT

\* if offset_y > self.height - icon.height, lines 675 and 702.
Wraps(H, offset_y) == offset_y > H - ICON_HEIGHT

\* WallpaperWindow.draw, lines 671-683: the offset each icon is drawn at.
\* seen is the number of icons already drawn.
RECURSIVE IconDrawLoop(_, _, _, _, _)
IconDrawLoop(H, seen, offset_x, offset_y, last_width) ==
    IF seen >= NumIcons THEN <<>>
    ELSE LET wrap == Wraps(H, offset_y)
             oy == IF wrap THEN 50 ELSE offset_y
             ox == IF wrap THEN offset_x + last_width ELSE offset_x
             lw0 == IF wrap THEN 0 ELSE last_width
             lw == IF ICON_WIDTH > lw0 THEN ICON_WIDTH ELSE lw0
         IN  <<[x |-> ox, y |-> oy]>> \o IconDrawLoop(H, seen + 1, ox, oy + ICON_HEIGHT, lw)

IconOffsets(H) == IconDrawLoop(H, 0, 20, 50, 0)

\* WallpaperWindow.mouse_action, lines 699-713: the icon under the pointer.
\* seen is the number of icons already passed.
RECURSIVE IconHitLoop(_, _, _, _, _, _, _)
IconHitLoop(H, x, y, seen, offset_x, offset_y, last_width) ==
    IF seen >= NumIcons THEN None
    ELSE LET wrap == Wraps(H, offset_y)
             oy == IF wrap THEN 50 ELSE offset_y
             ox == IF wrap THEN offset_x + last_width ELSE offset_x
             lw0 == IF wrap THEN 0 ELSE last_width
             lw == IF ICON_WIDTH > lw0 THEN ICON_WIDTH ELSE lw0
         IN  IF x >= ox /\ x < ox + ICON_WIDTH /\ y >= oy /\ y < oy + ICON_HEIGHT
             THEN seen + 1
             ELSE IconHitLoop(H, x, y, seen + 1, ox, oy + ICON_HEIGHT, lw)

IconUnderMouse(H, x, y) == IconHitLoop(H, x, y, 0, 20, 50, 0)

\* WallpaperWindow.draw, lines 645-669 and 685-686: a cross-fade that has
\* run for 1.0 s swaps the background in and drops its entry.
WallpaperDraw(anims, bg, newbg, t) ==
    IF anims[SelfKey] # NoAnim /\ t - anims[SelfKey] >= CrossFadeTicks
    THEN [animations |-> [anims EXCEPT ![SelfKey] = NoAnim], background |-> newbg]
    ELSE [animations |-> anims, background |-> bg]

\* WallpaperIcon.mouse_action -> launch_application -> add_animation.
IconMouseAction(anims, icon, msg, t) ==
    IF msg.command = "CLICK"
    THEN [animations |-> [anims EXCEPT ![icon] = t],
          calls |-> <<Call("add_animation", icon), Call("spawn", icon)>>]
    ELSE [animations |-> anims, calls |-> <<>>]

\* WallpaperWindow.mouse_action(msg), lines 690-729.
WallpaperMouseAction(msg) ==
    LET same == [focused |-> focused_icon, hilit |-> icon_hilit, animations |-> animations,
                 calls |-> <<>>, redraw |-> FALSE]
    IN  IF (msg.command = "LEAVE" \/ msg.y >= wall_height) /\ focused_icon # None
        THEN [same EXCEPT !.focused = None, !.hilit = icon_hilit \ {focused_icon},
                          !.calls = <<Call("focus_leave", focused_icon)>>,
                          !.redraw = TRUE]
        ELSE LET icon_under_mouse == IconUnderMouse(wall_height, msg.x, msg.y)
             IN  IF icon_under_mouse # focused_icon
                 THEN LET h1 == IF focused_icon # None THEN icon_hilit \ {focused_icon}
                                ELSE icon_hilit
                      IN  [same EXCEPT
                             !.focused = icon_under_mouse,
                             !.hilit = IF icon_under_mouse # None
                                       THEN h1 \cup {icon_under_mouse} ELSE h1,
                             !.calls = (IF focused_icon # None
                                        THEN <<Call("focus_leave", focused_icon)>>
                                        ELSE <<>>)
                                       \o (IF icon_under_mouse # None
                                           THEN <<Call("focus_enter", icon_under_mouse)>>
                                           ELSE <<>>),
                             !.redraw = focused_icon # None \/ icon_under_mouse # None]
                 ELSE IF icon_under_mouse # None
                 THEN LET r == IconMouseAction(animations, icon_under_mouse, msg, now)
                      IN  [same EXCEPT
                             !.animations = r.animations,
                             !.calls = <<Call("mouse_action", icon_under_mouse)>> \o r.calls]
                 ELSE same

\* load_wallpaper(): a new image, told from the two the wallpaper holds.
FreshImage(bg, newbg) ==
    CHOOSE i \in 1..3 : i \notin {bg, newbg} /\ \A j \in 1..(i - 1) : j \in {bg, newbg}

\* WallpaperWindow.animate_new, lines 546-548.
animate_new(anims, bg, newbg, t) ==
    [animations |-> [anims EXCEPT ![SelfKey] = t], new_background |-> FreshImage(bg, newbg)]

\* "none" or the point of the timer-tick handler at which the interpreter
\* runs the SIGUSR1 handler (reload_wallpaper -> animate_new), which it
\* does between two bytecodes of whatever the main thread is executing:
\* "before" the test of wallpaper.animations (line 1054), "in_draw" between
\* the test of diff (line 662) and the del (line 686), "in_loop" inside the
\* loop over self.animations (line 557).
SignalPoints == {"none", "before", "in_draw", "in_loop"}

\* WallpaperWindow.draw with animate_new run between lines 662 and 686.
WallpaperDrawInterrupted(anims, bg, newbg, t) ==
    LET clear_animation == anims[SelfKey] # NoAnim /\ t - anims[SelfKey] >= CrossFadeTicks
        bg1 == IF clear_animation THEN newbg ELSE bg
        n == animate_new(anims, bg1, newbg, t)
    IN  [animations |-> IF clear_animation
                        THEN [n.animations EXCEPT ![SelfKey] = NoAnim]
                        ELSE n.animations,
         background |-> bg1,
         new_background |-> n.new_background]

\* The bounces animate drops, lines 556-563: tick - start > 0.5.
Ditch(anims, t) ==
    [k \in DOMAIN anims |->
        IF k # SelfKey /\ anims[k] # NoAnim /\ t - anims[k] > BounceTicks
        THEN NoAnim ELSE anims[k]]

\* WallpaperWindow.animate, lines 553-563, with the signal at sig.  A key
\* added to the dictionary inside the loop over it raises RuntimeError.
animate(anims, bg, newbg, t, sig) ==
    LET d == IF sig = "in_draw" THEN WallpaperDrawInterrupted(anims, bg, newbg, t)
             ELSE WallpaperDraw(anims, bg, newbg, t) @@ [new_background |-> newbg]
        n == animate_new(d.animations, d.background, d.new_background, t)
    IN  IF sig = "in_loop"
        THEN [animations |-> IF d.animations[SelfKey] = NoAnim THEN n.animations
                             ELSE Ditch(n.animations, t),
              background |-> d.background,
              new_background |-> n.new_background,
              raised |-> d.animations[SelfKey] = NoAnim]
        ELSE [animations |-> Ditch(d.animations, t),
              background |-> d.background,
              new_background |-> d.new_background,
              raised |-> FALSE]

(***************************************************************************)
(* The dispatch loop, lines 1032-1117: one action per message kind.        *)
(***************************************************************************)
\* MSG_SESSION_END: panel.close(); wallpaper.close(); break.
SessionEnd ==
    /\ running = "run"
    /\ running' = "ended"
    /\ last' = [type |-> "SESSION_END"]
    /\ forwarded' = <<"panel.close", "wallpaper.close">>
    /\ calls' = <<Call("panel.close", 0), Call("wallpaper.close", 0)>>
    /\ UNCHANGED <<windows_zorder, windows, tabbing, new_focused, alttab, app_runner,
                   menus, visible, hovered_menu>>
    /\ UNCHANGED <<panelVars, volVars, wallVars>>

\* The views rebuilt and the panel left as it was drawn.
Notify_no_draw(ads) ==
    /\ running = "run"
    /\ windows_zorder' = ads
    /\ windows' = SortedByWid(ads)
    /\ last' = [type |-> "NOTIFY", ads |-> ads]
    /\ forwarded' = <<>>
    /\ calls' = <<Call("query_windows", 0)>>
    /\ UNCHANGED <<running, tabbing, new_focused, alttab, app_runner, menus, visible,
                   hovered_menu, panelVars, volVars, wallVars>>

\* MSG_NOTIFY: both views rebuilt from the advertisements, then panel.draw().
Notify(ads) ==
    /\ running = "run"
    /\ windows_zorder' = ads
    /\ windows' = SortedByWid(ads)
    /\ wl' = PanelDraw(widgets, panel_width, wl, windows')
    /\ drawn' = DrawExtents(widgets, panel_width)
    /\ last' = [type |-> "NOTIFY", ads |-> ads]
    /\ forwarded' = <<"panel.draw">>
    /\ calls' = <<Call("query_windows", 0), Call("panel.draw", 0)>>
    /\ UNCHANGED <<running, tabbing, new_focused, alttab, app_runner, menus, visible,
                   hovered_menu, widgets, panel_width, focused_widget, hilit>>
    /\ UNCHANGED <<volVars, wallVars>>

\* The part of the MSG_KEY_EVENT branch after the runner's, lines 1060-1092:
\* the keycodes of the tests exclude one another, the menu test ends it.
KeyDispatch(msg, listing) ==
    LET down == msg.action = "DOWN"
        alt == "LEFT_ALT" \in msg.modifiers
        ctrl == "LEFT_CTRL" \in msg.modifiers
        same == [raised |-> FALSE, runner |-> app_runner, menus |-> menus,
                 visible |-> visible, tabbing |-> tabbing, new_focused |-> new_focused,
                 alttab |-> alttab, calls |-> <<>>]
        r == IF ~app_runner.open /\ alt /\ msg.keycode = "F2" /\ down
             THEN [same EXCEPT !.runner = NewRunner(listing),
                               !.calls = <<Call("ApplicationRunnerWindow", 0),
                                           Call("app_runner.draw", 0)>>]
             ELSE IF menus = {} /\ alt /\ msg.keycode = "F1" /\ down
             THEN [same EXCEPT !.menus = {MenuWid},
                               !.calls = <<Call("appmenu.activate", 0)>>]
             ELSE IF ctrl /\ alt /\ msg.keycode = "t" /\ down
             THEN [same EXCEPT !.calls = <<Call("launch_app",
                                                [item |-> <<"terminal">>,
                                                 terminal |-> FALSE])>>]
             ELSE IF ctrl /\ msg.keycode = "F11" /\ down
             THEN [same EXCEPT !.visible = ~visible,
                               !.calls = <<Call("toggle_visibility", 0)>>]
             ELSE IF tabbing /\ msg.keycode \in {"NONE", "LEFT_ALT"}
                     /\ msg.modifiers = {} /\ msg.action = "UP"
             THEN LET f == finish_alt_tab
                  IN  [same EXCEPT !.raised = f.raised, !.tabbing = f.tabbing,
                                   !.new_focused = f.new_focused, !.alttab = f.alttab,
                                   !.calls = <<Call("finish_alt_tab", 0)>> \o f.calls]
             ELSE IF alt /\ msg.keycode = "\t" /\ down
             THEN LET a == alt_tab(msg)
                  IN  [same EXCEPT !.tabbing = a.tabbing, !.new_focused = a.new_focused,
                                   !.alttab = a.alttab,
                                   !.calls = <<Call("alt_tab", 0)>> \o a.calls]
             ELSE same
    IN  IF ~r.raised /\ msg.wid \in r.menus
        THEN [r EXCEPT !.calls = r.calls \o <<Call("menu.keyboard_event", msg.wid)>>]
        ELSE r

\* The calls the key branch of the loop makes itself, lines 1060-1092.
KeyCalls ==
    {"ApplicationRunnerWindow", "app_runner.draw", "appmenu.activate", "launch_app",
     "toggle_visibility", "finish_alt_tab", "alt_tab", "menu.keyboard_event"}

\* Of the calls cs of a key event, those the loop made itself.
RECURSIVE LoopCalls(_)
LoopCalls(cs) ==
    IF cs = <<>> THEN <<>>
    ELSE (IF Head(cs).op \in KeyCalls THEN <<Head(cs).op>> ELSE <<>>)
         \o LoopCalls(Tail(cs))

\* The routing test without the test of the global reference.
ToRunner_by_wid(msg) == msg.wid = RunnerWid

\* Whether the dispatch loop hands the key event to the runner, line 1057.
ToRunner(msg) == app_runner.open /\ msg.wid = RunnerWid

\* MSG_KEY_EVENT.  listing is what the search path holds, read if this
\* event opens the runner.
KeyEvent(msg, listing) ==
    /\ running = "run"
    /\ ~(ToRunner(msg) /\ IsInsert(msg) /\ Len(app_runner.data) >= MaxTyped)
    /\ IF ToRunner(msg)
       THEN \E k \in {key_action(app_runner, msg)} :
                /\ app_runner' = k.runner
                /\ calls' = <<Call("app_runner.key_action", 0)>> \o k.calls
                /\ forwarded' = <<"app_runner.key_action">>
                /\ UNCHANGED <<running, menus, visible, tabbing, new_focused, alttab>>
       ELSE \E d \in {KeyDispatch(msg, listing)} :
                /\ running' = IF d.raised THEN "crashed" ELSE running
                /\ app_runner' = d.runner
                /\ menus' = d.menus
                /\ visible' = d.visible
                /\ tabbing' = d.tabbing
                /\ new_focused' = d.new_focused
                /\ alttab' = d.alttab
                /\ calls' = d.calls
                /\ forwarded' = LoopCalls(d.calls)
    /\ last' = msg
    /\ UNCHANGED <<windows_zorder, windows, hovered_menu>>
    /\ UNCHANGED <<panelVars, volVars, wallVars>>

\* Every pointer event handed to the panel and to the wallpaper.
MouseTargets_broadcast(msg) ==
    <<"panel.mouse_action", "wallpaper.mouse_action">>

\* The handlers the wid tests of lines 1104-1108 select for a pointer event.
MouseTargets(msg) ==
    (IF msg.wid = PanelWid THEN <<"panel.mouse_action">>
     ELSE IF msg.wid = WallpaperWid THEN <<"wallpaper.mouse_action">>
     ELSE <<>>)
    \o (IF msg.wid \in menus THEN <<"menu.mouse_action">> ELSE <<>>)

\* The pointer is inside the menu's surface, line 1110.
InMenu(msg) ==
    /\ msg.x >= 0 /\ msg.x < MENU_WIDTH
    /\ msg.y >= 0 /\ msg.y < MENU_HEIGHT

\* MSG_WINDOW_MOUSE_EVENT, lines 1103-1114.
MouseEvent(msg) ==
    /\ running = "run"
    /\ forwarded' = MouseTargets(msg)
    /\ IF msg.wid = PanelWid
       THEN \E r \in {PanelMouseAction(msg)} :
                /\ running' = IF r.raised THEN "crashed" ELSE running
                /\ focused_widget' = r.focused
                /\ hilit' = r.hilit
                /\ wl' = IF r.redraws > 0
                         THEN PanelDraw(widgets, panel_width, r.wl, windows)
                         ELSE r.wl
                /\ drawn' = IF r.redraws > 0 THEN DrawExtents(widgets, panel_width)
                            ELSE drawn
                /\ vol' = r.vol
                /\ mixer' = IF r.set THEN r.vol.volume ELSE mixer
                /\ menus' = r.menus
                /\ calls' = r.calls \o [k \in 1..r.redraws |-> Call("panel.draw", 0)]
                /\ UNCHANGED <<focused_icon, icon_hilit, animations, background,
                               hovered_menu>>
       ELSE IF msg.wid = WallpaperWid
       THEN \E r \in {WallpaperMouseAction(msg)} :
            \E d \in {IF r.redraw
                      THEN WallpaperDraw(r.animations, background, new_background, now)
                      ELSE [animations |-> r.animations, background |-> background]} :
                /\ focused_icon' = r.focused
                /\ icon_hilit' = r.hilit
                /\ animations' = d.animations
                /\ background' = d.background
                /\ calls' = r.calls \o (IF r.redraw THEN <<Call("wallpaper.draw", 0)>>
                                        ELSE <<>>)
                /\ UNCHANGED <<running, focused_widget, hilit, drawn, wl, vol, mixer,
                               menus, hovered_menu>>
       ELSE IF msg.wid \in menus
       THEN /\ hovered_menu' = IF InMenu(msg) THEN msg.wid
                               ELSE IF hovered_menu = msg.wid THEN "none"
                               ELSE hovered_menu
            /\ calls' = <<Call("menu.mouse_action", msg.wid)>>
            /\ UNCHANGED <<running, focused_widget, hilit, drawn, wl, vol, mixer, menus,
                           focused_icon, icon_hilit, animations, background>>
       ELSE /\ calls' = <<>>
            /\ UNCHANGED <<running, focused_widget, hilit, drawn, wl, vol, mixer, menus,
                           hovered_menu, focused_icon, icon_hilit, animations,
                           background>>
    /\ last' = msg
    /\ UNCHANGED <<windows_zorder, windows, tabbing, new_focused, alttab, app_runner,
                   visible, widgets, panel_width, wall_height, new_background, now,
                   current_time>>

\* MSG_TIMER_TICK, lines 1045-1055, with the signal at sig.
TimerTick(sig) ==
    /\ running = "run"
    /\ \E second \in {now \div 4} :
       \E s \in {IF sig = "before"
                  THEN animate_new(animations, background, new_background, now)
                  ELSE [animations |-> animations, new_background |-> new_background]} :
       \E pending \in {\E k \in DOMAIN s.animations : s.animations[k] # NoAnim} :
          /\ sig \in {"in_draw", "in_loop"} => pending
          /\ \E a \in {IF pending
                        THEN animate(s.animations, background, s.new_background, now, sig)
                        ELSE [animations |-> s.animations, background |-> background,
                              new_background |-> s.new_background, raised |-> FALSE]} :
                /\ running' = IF a.raised THEN "crashed" ELSE running
                /\ animations' = a.animations
                /\ background' = a.background
                /\ new_background' = a.new_background
                /\ calls' = (IF second # current_time
                             THEN <<Call("waitpid", 0), Call("panel.draw", 0)>>
                             ELSE <<>>)
                            \o (IF sig = "before" THEN <<Call("reload_wallpaper", 0)>>
                                ELSE <<>>)
                            \o (IF pending
                                THEN <<Call("wallpaper.animate", 0),
                                       Call("wallpaper.draw", 0)>>
                                ELSE <<>>)
                            \o (IF sig \in {"in_draw", "in_loop"}
                                THEN <<Call("reload_wallpaper", 0)>> ELSE <<>>)
          /\ current_time' = second
          /\ wl' = IF second # current_time
                   THEN PanelDraw(widgets, panel_width, wl, windows) ELSE wl
          /\ drawn' = IF second # current_time
                      THEN DrawExtents(widgets, panel_width) ELSE drawn
    /\ last' = [type |-> "TIMER_TICK"]
    /\ forwarded' = (IF now \div 4 # current_time THEN <<"waitpid", "panel.draw">>
                     ELSE <<>>)
                    \o (IF CalledIn(calls', "wallpaper.animate")
                        THEN <<"wallpaper.animate">> ELSE <<>>)
    /\ UNCHANGED <<windows_zorder, windows, tabbing, new_focused, alttab, app_runner,
                   menus, visible, hovered_menu, widgets, panel_width, focused_widget,
                   hilit, wall_height, focused_icon, icon_hilit, now>>
    /\ UNCHANGED volVars

\* resize_accept(msg.width, msg.height): the surface takes the offered
\* geometry.
resize_accept(msg) == [width |-> msg.width, height |-> msg.height]

\* Every offer that is not the panel's taken for the wallpaper's.
ResizeTarget_else(msg) ==
    IF msg.wid = PanelWid THEN PanelWid ELSE WallpaperWid

\* The surface the wid tests of lines 1099-1102 select for a resize offer.
ResizeTarget(msg) ==
    IF msg.wid = PanelWid THEN PanelWid
    ELSE IF msg.wid = WallpaperWid THEN WallpaperWid
    ELSE "none"

\* MSG_RESIZE_OFFER, lines 1097-1102, with finish_resize of the panel
\* (lines 408-413) and of the wallpaper (lines 601-606).
ResizeOffer(msg) ==
    /\ running = "run"
    /\ IF ResizeTarget(msg) = PanelWid
       THEN /\ panel_width' = resize_accept(msg).width
            /\ wl' = PanelDraw(widgets, panel_width', wl, windows)
            /\ drawn' = DrawExtents(widgets, panel_width')
            /\ calls' = <<Call("panel.finish_resize", 0), Call("panel.draw", 0)>>
            /\ forwarded' = <<"panel.finish_resize">>
            /\ UNCHANGED <<wall_height, animations, background>>
       ELSE IF ResizeTarget(msg) = WallpaperWid
       THEN \E d \in {WallpaperDraw(animations, background, new_background, now)} :
                /\ wall_height' = resize_accept(msg).height
                /\ animations' = d.animations
                /\ background' = d.background
                /\ calls' = <<Call("wallpaper.finish_resize", 0),
                              Call("wallpaper.draw", 0)>>
                /\ forwarded' = <<"wallpaper.finish_resize">>
                /\ UNCHANGED <<panel_width, wl, drawn>>
       ELSE /\ calls' = <<>>
            /\ forwarded' = <<>>
            /\ UNCHANGED <<panel_width, wl, drawn, wall_height, animations, background>>
    /\ last' = msg
    /\ UNCHANGED <<running, windows_zorder, windows, tabbing, new_focused, alttab,
                   app_runner, menus, visible, hovered_menu, widgets, focused_widget,
                   hilit, focused_icon, icon_hilit, new_background, now, current_time>>
    /\ UNCHANGED volVars

\* MSG_WELCOME, lines 1093-1096: both surfaces ask the server for the new
\* display's size; the geometry changes when the offers arrive.
Welcome(msg) ==
    /\ running = "run"
    /\ last' = msg
    /\ calls' = <<Call("panel.resize", [width |-> msg.display_width,
                                        height |-> PANEL_HEIGHT]),
                  Call("wallpaper.resize", [width |-> msg.display_width,
                                            height |-> msg.display_height])>>
    /\ forwarded' = <<"panel.resize", "wallpaper.resize">>
    /\ UNCHANGED <<dispVars, panelVars, volVars, wallVars, hovered_menu>>

\* MenuWindow.leave_menu(): the menu that lost the focus stays or closes and
\* leaves panel.menus.
leave_menu(ms, wid) == {ms, ms \ {wid}}

\* MSG_WINDOW_FOCUS_CHANGE, lines 1115-1117.
FocusChange(msg) ==
    /\ running = "run"
    /\ IF msg.wid \in menus /\ msg.focused = 0
       THEN /\ menus' \in leave_menu(menus, msg.wid)
            /\ calls' = <<Call("menu.leave_menu", msg.wid)>>
            /\ forwarded' = <<"menu.leave_menu">>
       ELSE /\ calls' = <<>>
            /\ forwarded' = <<>>
            /\ UNCHANGED menus
    /\ last' = msg
    /\ UNCHANGED <<running, windows_zorder, windows, tabbing, new_focused, alttab,
                   app_runner, visible, hovered_menu>>
    /\ UNCHANGED <<panelVars, volVars, wallVars>>

\* A message of a kind no branch of the chain of lines 1035-1115 tests for:
\* the loop polls again.
OtherMessage(kind) ==
    /\ running = "run"
    /\ last' = [type |-> kind]
    /\ calls' = <<>>
    /\ forwarded' = <<>>
    /\ UNCHANGED <<dispVars, panelVars, volVars, wallVars, hovered_menu>>

\* SIGUSR1 while the loop waits in poll(): reload_wallpaper, lines 936-938.
Sigusr1 ==
    /\ running = "run"
    /\ \E n \in {animate_new(animations, background, new_background, now)} :
          /\ animations' = n.animations
          /\ new_background' = n.new_background
    /\ last' = [type |-> "SIGUSR1"]
    /\ forwarded' = <<>>
    /\ calls' = <<Call("reload_wallpaper", 0)>>
    /\ UNCHANGED <<running, windows_zorder, windows, tabbing, new_focused, alttab,
                   app_runner, menus, visible, hovered_menu, wall_height, focused_icon,
                   icon_hilit, background, now, current_time>>
    /\ UNCHANGED <<panelVars, volVars>>

\* A quarter second passes while the loop waits in poll().
TimePasses ==
    /\ running = "run"
    /\ now < MaxTime
    /\ now' = now + 1
    /\ last' = [type |-> "NONE"]
    /\ forwarded' = <<>>
    /\ calls' = <<>>
    /\ UNCHANGED <<running, windows_zorder, windows, tabbing, new_focused, alttab,
                   app_runner, menus, visible, hovered_menu, wall_height, focused_icon,
                   icon_hilit, animations, background, new_background, current_time>>
    /\ UNCHANGED <<panelVars, volVars>>

(***************************************************************************)
(* The state after start-up, lines 987-1030.                               *)
(***************************************************************************)
NoAnimations == [k \in 0..NumIcons |-> NoAnim]

\* ads: the first directory query; ws, W: the widgets and the panel's
\* width; v: the level get_volume() reads from the mixer.
Startup(ads, ws, W, v) ==
    /\ running = "run"
    /\ windows_zorder = ads
    /\ windows = SortedByWid(ads)
    /\ tabbing = FALSE
    /\ new_focused = -1
    /\ alttab = "none"
    /\ app_runner = NoRunner
    /\ menus = {}
    /\ visible = TRUE
    /\ hovered_menu = "none"
    /\ widgets = ws
    /\ panel_width = W
    /\ focused_widget = None
    /\ hilit = {}
    /\ drawn = DrawExtents(ws, W)
    /\ wl = PanelDraw(ws, W, [hovered |-> None, unit_width |-> None, offset |-> 0],
                      SortedByWid(ads))
    /\ vol = [volume |-> v, muted |-> FALSE, previous_volume |-> Level(0, 0)]
    /\ mixer = v
    /\ wall_height = DisplayHeight
    /\ focused_icon = None
    /\ icon_hilit = {}
    /\ animations = NoAnimations
    /\ background = 1
    /\ new_background = None
    /\ now = 0
    /\ current_time = 0
    /\ last = [type |-> "START", ads |-> ads]
    /\ forwarded = <<>>
    /\ calls = <<>>

(***************************************************************************)
(* Messages.                                                               *)
(***************************************************************************)
Key(wid, keycode, key, modifiers, action) ==
    [modifiers |-> modifiers, action |-> action, keycode |-> keycode, key |-> key,
     type |-> "KEY", wid |-> wid]

Mouse(wid, command, buttons, x, y) ==
    [x |-> x, command |-> command, buttons |-> buttons, y |-> y,
     type |-> "MOUSE", wid |-> wid]

AltTab(wid) == Key(wid, "\t", "\t", {"LEFT_ALT"}, "DOWN")
AltShiftTab(wid) == Key(wid, "\t", "\t", {"LEFT_ALT", "LEFT_SHIFT"}, "DOWN")
AltUp(wid) == Key(wid, "LEFT_ALT", "NUL", {}, "UP")
ZeroUp(wid) == Key(wid, "NONE", "NUL", {}, "UP")
AltF2(wid) == Key(wid, "F2", "NUL", {"LEFT_ALT"}, "DOWN")
Escape(wid) == Key(wid, "ESCAPE", "ESC", {}, "DOWN")
Char(wid, c, action) == Key(wid, c, c, {}, action)
Backspace(wid) == Key(wid, "BS", "BS", {}, "DOWN")
Delete(wid) == Key(wid, "DEL", "DEL", {}, "DOWN")
Enter(wid, modifiers) == Key(wid, "\n", "\n", modifiers, "DOWN")

AltF1(wid) == Key(wid, "F1", "NUL", {"LEFT_ALT"}, "DOWN")
CtrlF11(wid) == Key(wid, "F11", "NUL", {"LEFT_CTRL"}, "DOWN")
CtrlAltT(wid) == Key(wid, "t", "t", {"LEFT_CTRL", "LEFT_ALT"}, "DOWN")

WelcomeMsg(w, h) == [type |-> "WELCOME", display_width |-> w, display_height |-> h]

Focus(wid, focused) == [focused |-> focused, type |-> "FOCUS_CHANGE", wid |-> wid]

Resize(wid, width, height) ==
    [width |-> width, type |-> "RESIZE_OFFER", wid |-> wid, height |-> height]

\* The level the mixer holds at start-up where the volume is not the subject.
DefaultLevel == Level(32768, 0)

\* What the search path holds where the completion is not the subject.
DefaultListing == << <<"l", "s">>, <<"l", "n">>, <<"c", "a", "t">> >>

(***************************************************************************)
(* Spec: the dispatcher's tab-switch state machine, with the application   *)
(* runner that competes with it for key events, under every window list    *)
(* the server can report.                                                  *)
(***************************************************************************)
TabKeys ==
    {AltTab(OtherWid), AltShiftTab(OtherWid), AltUp(OtherWid), ZeroUp(OtherWid),
     AltF2(OtherWid), AltUp(RunnerWid), ZeroUp(RunnerWid), Escape(RunnerWid)}

Init == \E ads \in ZLists : Startup(ads, ProgramWidgets, DisplayWidth, DefaultLevel)

Next ==
    \/ \E ads \in ZLists : Notify(ads)
    \/ \E msg \in TabKeys : KeyEvent(msg, DefaultListing)
    \/ SessionEnd

Spec == Init /\ [][Next]_vars

(***************************************************************************)
(* RunnerSpec: the application runner under every listing of the search    *)
(* path that holds some of BinNames and every text of up to MaxTyped keys. *)
(***************************************************************************)
BinNames == {<<"l", "s">>, <<"l", "n">>, <<"c", "a", "t">>, <<"l">>}

\* os.listdir gives the names in no particular order.
BinLists == UNION {{s \in [1..n -> BinNames] :
                      \A i, j \in 1..n : i # j => s[i] # s[j]} :
                   n \in 0..Cardinality(BinNames)}

TypedChars == {"l", "n", "s"}

RunnerKeys ==
    {Char(RunnerWid, c, a) : c \in TypedChars, a \in {"DOWN", "UP"}}
    \cup {Backspace(RunnerWid), Delete(RunnerWid), Escape(RunnerWid),
          Enter(RunnerWid, {}), Enter(RunnerWid, {"LEFT_SHIFT"}),
          Enter(RunnerWid, {"RIGHT_SHIFT"})}

RunnerInit == Startup(<<1>>, ProgramWidgets, DisplayWidth, DefaultLevel)

RunnerNext ==
    \/ \E listing \in BinLists : KeyEvent(AltF2(OtherWid), listing)
    \/ \E msg \in RunnerKeys : KeyEvent(msg, <<>>)

RunnerSpec == RunnerInit /\ [][RunnerNext]_vars

(***************************************************************************)
(* FocusSpec: pointer events on the panel and on the wallpaper.            *)
(***************************************************************************)
\* A pointer x inside the applications menu, the window list, the clock and
\* the log-out button, and one past the panel's end.
PanelXs == {DrawExtents(ProgramWidgets, DisplayWidth)[i].offset : i \in {1, 2, 5, 6}}
           \cup {DisplayWidth}

\* Pointer positions on the wallpaper: inside each of the first icons of two
\* columns, between icons, and below the surface.
WallPoints == {<<20, 50>>, <<119, 129>>, <<120, 50>>, <<0, 0>>, <<20, DisplayHeight>>}

FocusMice ==
    {Mouse(PanelWid, c, {}, x, y) :
        c \in {"MOVE", "CLICK", "LEAVE"}, x \in PanelXs, y \in {0, PANEL_HEIGHT}}
    \cup {Mouse(WallpaperWid, c, {}, p[1], p[2]) :
            c \in {"MOVE", "CLICK", "LEAVE"}, p \in WallPoints}

FocusInit == Startup(<<2, 1>>, ProgramWidgets, DisplayWidth, DefaultLevel)

FocusNext == \E msg \in FocusMice : MouseEvent(msg)

FocusSpec == FocusInit /\ [][FocusNext]_vars

(***************************************************************************)
(* LayoutSpec: the panel's layout walk and hit-test as functions of the    *)
(* widget sequence and the surface width: every sequence of up to          *)
(* MaxWidgets widgets of the base class, every width up to MaxWidth.       *)
(***************************************************************************)
WidgetWidths == {-1, 1, 2}

WidgetLists ==
    UNION {[1..n -> {[kind |-> "base", width |-> w] : w \in WidgetWidths}] :
           n \in 1..MaxWidgets}

LayoutMice == {Mouse(PanelWid, "MOVE", {}, x, 0) : x \in -1..(MaxWidth + 1)}

LayoutInit ==
    \E ws \in WidgetLists, W \in 0..MaxWidth : Startup(<<>>, ws, W, DefaultLevel)

LayoutNext == \E msg \in LayoutMice : MouseEvent(msg)

LayoutSpec == LayoutInit /\ [][LayoutNext]_vars

(***************************************************************************)
(* VolumeSpec: the volume widget under scroll and click events, from       *)
(* levels on both sides of each threshold of the clamps.                   *)
(***************************************************************************)
\* 0xE0000000, 0xE0000001, 0x1FFFFFFF, 0xFFFFFFFF: with the steps of
\* 0x10000000 from them these reach 0x20000000, 0xDFFFFFFF, 0xF0000000,
\* 0xF0000001 and the levels in between.
SampleLevels == {Level(57344, 0), Level(57344, 1), Level(8191, 65535),
                 Level(65535, 65535)}

VolumeX == DrawExtents(ProgramWidgets, DisplayWidth)[3].offset

VolumeMice ==
    {Mouse(PanelWid, c, b, VolumeX, 0) :
        c \in {"MOVE", "CLICK"}, b \in {{}, {"SCROLL_UP"}, {"SCROLL_DOWN"}}}
    \cup {Mouse(PanelWid, "LEAVE", {}, VolumeX, 0)}

VolumeInit == \E v \in SampleLevels : Startup(<<1>>, ProgramWidgets, DisplayWidth, v)

VolumeNext == \E msg \in VolumeMice : MouseEvent(msg)

VolumeSpec == VolumeInit /\ [][VolumeNext]_vars

(***************************************************************************)
(* WallpaperSpec: the wallpaper's animations under timer ticks, reload     *)
(* signals, clicks on the first icon and the passing of time.              *)
(***************************************************************************)
\* The pointer on the first icon: a move focuses it, a click launches it.
WallMice == {Mouse(WallpaperWid, c, {}, 20, 50) : c \in {"MOVE", "CLICK"}}

WallpaperInit == Startup(<<1>>, ProgramWidgets, DisplayWidth, DefaultLevel)

WallpaperNext ==
    \/ TimePasses
    \/ Sigusr1
    \/ \E sig \in SignalPoints : TimerTick(sig)
    \/ \E msg \in WallMice : MouseEvent(msg)

WallpaperSpec == WallpaperInit /\ [][WallpaperNext]_vars

(***************************************************************************)
(* DispatchSpec: the dispatch loop under every message kind, with window   *)
(* ids of each of the client's surfaces and of a foreign window.           *)
(***************************************************************************)
DispatchKeys ==
    {AltTab(MenuWid), AltUp(OtherWid), AltF2(OtherWid), Escape(RunnerWid),
     Escape(OtherWid), AltF1(OtherWid), CtrlAltT(OtherWid)}

DispatchMice ==
    {Mouse(PanelWid, "MOVE", {}, 0, 0), Mouse(WallpaperWid, "CLICK", {}, 20, 50),
     Mouse(MenuWid, "MOVE", {}, 0, 0), Mouse(MenuWid, "MOVE", {}, MENU_WIDTH, 0),
     Mouse(OtherWid, "MOVE", {}, 20, 50)}

DispatchResizes ==
    {Resize(wid, DisplayWidth, DisplayHeight) :
        wid \in {PanelWid, WallpaperWid, MenuWid, OtherWid}}

DispatchFocus == {Focus(MenuWid, 0), Focus(MenuWid, 1), Focus(OtherWid, 0)}

\* Kinds of the protocol the loop has no branch for.
OtherKinds == {"WINDOW_MOVE", "WINDOW_CLOSE"}

DispatchInit == Startup(<<1>>, ProgramWidgets, DisplayWidth, DefaultLevel)

DispatchNext ==
    \/ Notify(<<1>>)
    \/ \E msg \in DispatchKeys : KeyEvent(msg, DefaultListing)
    \/ \E msg \in DispatchMice : MouseEvent(msg)
    \/ \E msg \in DispatchResizes : ResizeOffer(msg)
    \/ \E msg \in DispatchFocus : FocusChange(msg)
    \/ \E kind \in OtherKinds : OtherMessage(kind)
    \/ Welcome(WelcomeMsg(DisplayWidth, DisplayHeight))
    \/ TimerTick("none")
    \/ TimePasses
    \/ SessionEnd

DispatchSpec == DispatchInit /\ [][DispatchNext]_vars

(***************************************************************************)
(* TileSpec: the window list widget under every window list, panel widths  *)
(* that leave its tiles more and less than their room, and the pointer on  *)
(* and past the tiles, interleaved with notifications, resizes and ticks.  *)
(***************************************************************************)
\* The fixed widgets take 346: these leave the window list 294, 84 and 74.
TileWidths == {DisplayWidth, 430, 420}

\* The window list starts at x = 140; 433 is its last pixel on the widest
\* panel.
TileMice ==
    {Mouse(PanelWid, "MOVE", {}, x, 0) : x \in {0, 140, 168, 238, 433}}
    \cup {Mouse(PanelWid, "CLICK", {}, 168, 0),
          Mouse(PanelWid, "MOVE", {"BUTTON_RIGHT"}, 168, 0)}

\* The window lists the directory query reports.
TileLists == {<<>>, <<1>>, <<2, 1>>, <<3, 1, 2>>}

TileInit == \E ads \in TileLists : Startup(ads, ProgramWidgets, DisplayWidth, DefaultLevel)

TileNext ==
    \/ \E ads \in TileLists : Notify(ads)
    \/ \E W \in TileWidths : ResizeOffer(Resize(PanelWid, W, PANEL_HEIGHT))
    \/ \E msg \in TileMice : MouseEvent(msg)
    \/ TimerTick("none")

TileSpec == TileInit /\ [][TileNext]_vars

(***************************************************************************)
(* GridSpec: the desktop icons' grid as a function of the surface height:  *)
(* resize offers with heights on both sides of each change of the column   *)
(* length, and the pointer on every cell of a 3 x 3 grid.                  *)
(***************************************************************************)
\* With icons 80 high: 0, 1, 1, 2, 2 and 3 icons fit below y = 50.
GridHeights == {129, 130, 209, 210, DisplayHeight, 290}

GridMice ==
    {Mouse(WallpaperWid, "MOVE", {}, x, y) :
        x \in {20, 119, 120, 220}, y \in {50, 129, 130, 210}}

GridInit == Startup(<<>>, ProgramWidgets, DisplayWidth, DefaultLevel)

GridNext ==
    \/ \E H \in GridHeights : ResizeOffer(Resize(WallpaperWid, DisplayWidth, H))
    \/ \E msg \in GridMice : MouseEvent(msg)

GridSpec == GridInit /\ [][GridNext]_vars

(***************************************************************************)
(* Properties.                                                             *)
(***************************************************************************)
PanelFocusOk ==
    /\ Cardinality(hilit) <= 1
    /\ \A i \in 1..Len(widgets) :
          /\ i \in hilit => focused_widget = i
          /\ focused_widget = i /\ Highlights(widgets[i].kind) => i \in hilit

IconFocusOk ==
    /\ Cardinality(icon_hilit) <= 1
    /\ \A i \in 1..NumIcons : i \in icon_hilit <=> focused_icon = i

LeaveThenEnter(old, new, cs) ==
    old # None /\ new # None /\ new # old =>
        /\ Len(cs) >= 2
        /\ cs[1] = Call("focus_leave", old)
        /\ cs[2] = Call("focus_enter", new)

\* C1 (FocusSpec): after any sequence of mouse events at most one widget
\* (icon) is highlighted and it is the one recorded as focused_widget
\* (focused_icon); when the focus moves from one widget (icon) to another,
\* the handler calls the old one's focus_leave and then the new one's
\* focus_enter.
C1_FocusInvariant ==
    /\ PanelFocusOk /\ IconFocusOk
    /\ [][/\ PanelFocusOk' /\ IconFocusOk'
          /\ LeaveThenEnter(focused_widget, focused_widget', calls')
          /\ LeaveThenEnter(focused_icon, focused_icon', calls')]_vars

\* The pointer has moved from one highlighting panel widget onto another.
C1_Witness ==
    /\ last.type = "MOUSE" /\ last.wid = PanelWid
    /\ Len(calls) >= 2
    /\ calls[1].op = "focus_leave" /\ calls[2].op = "focus_enter"
    /\ focused_widget = calls[2].arg
    /\ hilit = {focused_widget}

\* C2 (Spec): in every state between two messages the alt-tab overlay
\* exists (created and not closed) exactly if tabbing is true.
C2_OverlayIffTabbing == (alttab = "open") <=> tabbing

\* An Alt release has closed the overlay of a tab switch.
C2_Witness ==
    /\ last.type = "KEY" /\ Called("alttab.close")
    /\ alttab = "closed" /\ ~tabbing

\* C3 (Spec): while tabbing the index is inside the current z-order list,
\* otherwise it is -1.
C3_TabIndexInRange ==
    IF tabbing
    THEN 0 <= new_focused /\ new_focused < Len(windows_zorder)
    ELSE new_focused = -1

\* C4 (Spec): while tabbing over N >= 1 windows, a key-down that alt_tab
\* handles maps the index i to (i+1) mod N with Shift and to (i-1) mod N
\* without.
C4_Wraparound ==
    [][tabbing /\ Len(windows_zorder) >= 1 /\ CalledIn(calls', "alt_tab") =>
          new_focused' = (new_focused + (IF "LEFT_SHIFT" \in last'.modifiers
                                         THEN 1 ELSE -1))
                         % Len(windows_zorder)]_vars

\* C5 (Spec): in tabbing(i), every key-up of Alt (or of keycode 0) with no
\* modifier held requests the focus for the window at index i, closes the
\* overlay and returns to idle.
C5_AltUpFinishes ==
    [][tabbing /\ last'.type = "KEY" /\ last'.action = "UP"
              /\ last'.keycode \in {"NONE", "LEFT_ALT"} /\ last'.modifiers = {} =>
          /\ PyIndexOk(windows_zorder, new_focused)
          /\ \E i \in 1..Len(calls') :
                calls'[i] = Call("focus_window", PyIndex(windows_zorder, new_focused))
          /\ ~tabbing'
          /\ alttab' = "closed"]_vars

Flexibles(ws) == {i \in 1..Len(ws) : ws[i].width = -1}

SumFixed(ws) ==
    SeqSum([i \in 1..Len(ws) |-> IF ws[i].width = -1 THEN 0 ELSE ws[i].width])

\* x lies in the extent [offset, right) that draw gave a widget.
InExtent(e, x) == e.offset <= x /\ x < e.right

Contiguous(d) ==
    /\ Len(d) > 0 => d[1].offset = 0
    /\ \A i \in 2..Len(d) : d[i].offset = d[i - 1].right

Overlap(a, b) ==
    /\ a.offset < a.right /\ b.offset < b.right
    /\ a.offset < b.right /\ b.offset < a.right

NonOverlapping(d) == \A i, j \in 1..Len(d) : i < j => ~Overlap(d[i], d[j])

\* The extents cover exactly [lo, hi).
Covers(d, lo, hi) ==
    /\ \A x \in lo..(hi - 1) : \E i \in 1..Len(d) : InExtent(d[i], x)
    /\ \A i \in 1..Len(d) :
          d[i].offset < d[i].right => lo <= d[i].offset /\ d[i].right <= hi

HitTestRan ==
    /\ last.type = "MOUSE" /\ last.wid = PanelWid
    /\ last.command # "LEAVE" /\ last.y < PANEL_HEIGHT

HitMatchesExtent ==
    /\ \A i \in 1..Len(drawn) : InExtent(drawn[i], last.x) => focused_widget = i
    /\ (\A i \in 1..Len(drawn) : ~InExtent(drawn[i], last.x)) => focused_widget = None

\* C7 as stated (LayoutSpec): a pointer x inside the extent draw computed
\* for widget i hit-tests to widget i, for every i; a pointer in no extent
\* hit-tests to none.
C7_HitTestConsistent == HitTestRan => HitMatchesExtent

\* The first widget, in order, whose extent contains x (None if there is none).
FirstContaining(d, x) ==
    IF \E i \in 1..Len(d) : InExtent(d[i], x)
    THEN CHOOSE i \in 1..Len(d) :
            InExtent(d[i], x) /\ \A j \in 1..(i - 1) : ~InExtent(d[j], x)
    ELSE None

\* C7 as amended (LayoutSpec): the hit-test selects the first widget whose
\* extent contains x, none if no extent does; this is widget i for every x
\* inside widget i's extent whenever the extents do not overlap.
C7_HitTestConsistentAmended ==
    HitTestRan =>
        /\ focused_widget = FirstContaining(drawn, last.x)
        /\ NonOverlapping(drawn) => HitMatchesExtent

\* The pointer is inside the extent of a flexible widget that follows a
\* fixed one, and the hit-test found it.
C7_Witness ==
    /\ HitTestRan
    /\ Len(widgets) >= 2 /\ widgets[2].width = -1
    /\ InExtent(drawn[2], last.x)
    /\ focused_widget = 2

\* The volume widget handled a scroll event of the given direction.
Scrolled(cs, msg, button) ==
    /\ msg.type = "MOUSE" /\ msg.command # "CLICK"
    /\ button \in msg.buttons
    /\ button = "SCROLL_DOWN" => "SCROLL_UP" \notin msg.buttons
    /\ CalledIn(cs, "set_volume")

\* C8 (VolumeSpec): volume_up from a level >= 0xE0000000 yields 0xF0000000
\* and otherwise adds 0x10000000; volume_down from a level < 0x20000000
\* yields 0 and otherwise subtracts 0x10000000; the result is an unsigned
\* 32-bit number and is what the mixer is set to.
C8_VolumeClamp ==
    [][/\ Scrolled(calls', last', "SCROLL_UP") =>
             /\ vol'.volume = IF LevelLess(vol.volume, Level(57344, 0))
                              THEN [hi |-> vol.volume.hi + 4096, lo |-> vol.volume.lo]
                              ELSE Level(61440, 0)
             /\ InU32(vol'.volume) /\ mixer' = vol'.volume
       /\ Scrolled(calls', last', "SCROLL_DOWN") =>
             /\ vol'.volume = IF LevelLess(vol.volume, Level(8192, 0))
                              THEN Level(0, 0)
                              ELSE [hi |-> vol.volume.hi - 4096, lo |-> vol.volume.lo]
             /\ InU32(vol'.volume) /\ mixer' = vol'.volume]_vars

\* A scroll up has clamped the level to 0xF0000000.
C8_Witness ==
    /\ Scrolled(calls, last, "SCROLL_UP")
    /\ vol.volume = Level(61440, 0) /\ mixer = Level(61440, 0)

\* The volume widget handled a click.
VolumeClicked(cs, msg) ==
    msg.type = "MOUSE" /\ msg.command = "CLICK" /\ CalledIn(cs, "set_volume")

\* C9 (VolumeSpec): the click that mutes at level L sets widget and mixer
\* to 0 and saves L; no event handled while muted changes the saved level;
\* the click that unmutes sets widget and mixer to the saved level.
C9_MuteRoundTrip ==
    [][/\ VolumeClicked(calls', last') /\ ~vol.muted =>
             /\ vol'.muted /\ vol'.previous_volume = vol.volume
             /\ vol'.volume = Level(0, 0) /\ mixer' = Level(0, 0)
       /\ VolumeClicked(calls', last') /\ vol.muted =>
             /\ ~vol'.muted
             /\ vol'.volume = vol.previous_volume /\ mixer' = vol.previous_volume
       /\ vol.muted /\ vol'.muted => vol'.previous_volume = vol.previous_volume]_vars

\* A click has unmuted and restored a level that is not 0.
C9_Witness ==
    /\ VolumeClicked(calls, last)
    /\ ~vol.muted
    /\ vol.volume = vol.previous_volume /\ mixer = vol.volume
    /\ vol.volume # Level(0, 0)

\* The runner handled a character insert or a backspace and the typed text
\* is not empty.
Typed ==
    /\ last.type = "KEY"
    /\ Len(calls) >= 1 /\ calls[1].op = "app_runner.key_action"
    /\ IsInsert(last) \/ (last.key = "BS" /\ last.action = "DOWN")
    /\ app_runner.open /\ app_runner.data # <<>>

\* The lexicographically smallest name of a non-empty set of names.
Smallest(S) == CHOOSE m \in S : \A o \in S : ~StrLess(o, m)

Expected(r) ==
    LET candidates == {b \in Range(r.bins) : StartsWith(b, r.data)}
    IN  IF candidates = {} THEN <<>>
        ELSE SubSeq(Smallest(candidates), Len(r.data) + 1, Len(Smallest(candidates)))

\* C10 (RunnerSpec): after a character insert or backspace that leaves a
\* non-empty text t, the suggestion is b[len(t):] for the lexicographically
\* smallest executable name b with prefix t, and empty if there is none;
\* with the executables {ls, ln, cat} and t = "l" it is "n".
C10_CompletionDeterminism ==
    Typed =>
        /\ app_runner.complete = Expected(app_runner)
        /\ Range(app_runner.bins) = {<<"l", "s">>, <<"l", "n">>, <<"c", "a", "t">>}
             /\ app_runner.data = <<"l">> => app_runner.complete = <<"n">>

\* "l" typed with ls listed before ln: the suggestion is "n".
C10_Witness ==
    /\ Typed
    /\ app_runner.bins = << <<"l", "s">>, <<"l", "n">>, <<"c", "a", "t">> >>
    /\ app_runner.data = <<"l">>
    /\ app_runner.complete = <<"n">>

\* The names of the listing that begin with the typed text.
Candidates(r) == {b \in Range(r.bins) : StartsWith(b, r.data)}

\* The suggestion and the flag as the typed text alone determines them.
Recomputed(r) ==
    IF r.data = <<>> THEN [complete |-> <<>>, completed |-> FALSE]
    ELSE [complete |-> Expected(r), completed |-> Candidates(r) # {}]

\* The runner handled the last message, a key-down.
RunnerHandled ==
    /\ last.type = "KEY" /\ last.action = "DOWN"
    /\ Len(calls) >= 1 /\ calls[1].op = "app_runner.key_action"

\* C11 (RunnerSpec): in every state of the open runner an empty typed text
\* has an empty suggestion and a false completed flag; after every
\* character insert and every Backspace the suggestion and the flag are the
\* ones recomputed from the typed text.
C11_RunnerInvariant ==
    /\ app_runner.open /\ app_runner.data = <<>> =>
          app_runner.complete = <<>> /\ ~app_runner.completed
    /\ RunnerHandled /\ app_runner.open /\ (IsInsert(last) \/ last.key = "BS") =>
          /\ app_runner.complete = Recomputed(app_runner).complete
          /\ app_runner.completed = Recomputed(app_runner).completed

\* A Backspace has left "l" of a longer text and the suggestion is "n" again.
C11_Witness ==
    /\ RunnerHandled /\ last.key = "BS"
    /\ app_runner.open
    /\ app_runner.data = <<"l">> /\ app_runner.complete = <<"n">>
    /\ app_runner.completed

\* C12 (Spec): while the runner is open, every key event is handed to the
\* runner's key_action and nothing else handles it: no tab switch, no menu
\* activation or menu keyboard event, no visibility toggle, no terminal.
C12_RunnerModal ==
    [][app_runner.open /\ last'.type = "KEY" =>
          /\ Len(calls') >= 1 /\ calls'[1].op = "app_runner.key_action"
          /\ UNCHANGED <<tabbing, new_focused, alttab, menus, visible>>]_vars

\* A shift key is held.
ShiftHeld(msg) == msg.modifiers \cap {"LEFT_SHIFT", "RIGHT_SHIFT"} # {}

\* The launch_app calls among cs.
Launches(cs) == SelectSeq(cs, LAMBDA c : c.op = "launch_app")

\* The step hands an Enter key-down to the open runner.
EnterStep(r, msg) ==
    /\ r.open /\ msg.type = "KEY" /\ msg.wid = RunnerWid
    /\ msg.action = "DOWN" /\ msg.key = "\n"

\* The step hands an Escape key-down to the open runner.
EscapeStep(r, msg) ==
    /\ r.open /\ msg.type = "KEY" /\ msg.wid = RunnerWid
    /\ msg.action = "DOWN" /\ msg.keycode = "ESCAPE"

\* C13 as stated (RunnerSpec): every Enter key-down handed to the open
\* runner launches exactly typed text + suggestion, in a terminal iff a
\* shift key is held, and closes the runner; an Escape key-down closes it
\* and launches nothing.
C13_EnterLaunches ==
    [][/\ EnterStep(app_runner, last') =>
             /\ Launches(calls') =
                   <<Call("launch_app",
                          [item |-> app_runner.data \o app_runner.complete,
                           terminal |-> ShiftHeld(last')])>>
             /\ app_runner' = NoRunner
       /\ EscapeStep(app_runner, last') =>
             Launches(calls') = <<>> /\ app_runner' = NoRunner]_vars

\* C13 as amended (RunnerSpec): an Enter key-down handed to the open runner
\* launches exactly typed text + suggestion if the typed text is not empty,
\* in a terminal iff the left shift key is held, and launches nothing if
\* the typed text is empty; either way it closes the runner.  An Escape
\* key-down closes it and launches nothing.
C13_EnterLaunchesAmended ==
    [][/\ EnterStep(app_runner, last') =>
             /\ Launches(calls') =
                   IF app_runner.data = <<>> THEN <<>>
                   ELSE <<Call("launch_app",
                               [item |-> app_runner.data \o app_runner.complete,
                                terminal |-> "LEFT_SHIFT" \in last'.modifiers])>>
             /\ app_runner' = NoRunner
       /\ EscapeStep(app_runner, last') =>
             Launches(calls') = <<>> /\ app_runner' = NoRunner]_vars

\* Enter with the left shift key held has launched "ln" in a terminal from
\* the typed "l" and closed the runner.
C13_Witness ==
    /\ RunnerHandled /\ last.key = "\n" /\ "LEFT_SHIFT" \in last.modifiers
    /\ Launches(calls) = <<Call("launch_app", [item |-> <<"l", "n">>, terminal |-> TRUE])>>
    /\ Called("app_runner.close")
    /\ ~app_runner.open

\* A cross-fade is pending.
Fading == animations[SelfKey] # NoAnim

\* The step handles a message the loop polled.
HandlesMessage(msg) == msg.type \notin {"START", "NONE", "SIGUSR1"}

\* C14 (WallpaperSpec): a cross-fade started by animate_new at time T has
\* its entry in the animations from then on; before T + 1.0 s the entry is
\* not removed and the background not swapped; a message handled at or
\* after T + 1.0 s, the fade not restarted, swaps the background to the new
\* image and removes the entry.
C14_CrossFadeLifecycle ==
    [][/\ CalledIn(calls', "reload_wallpaper") => animations'[SelfKey] = now'
       /\ Fading /\ now' - animations[SelfKey] < CrossFadeTicks =>
             animations'[SelfKey] # NoAnim /\ background' = background
       /\ /\ Fading /\ now - animations[SelfKey] >= CrossFadeTicks
          /\ HandlesMessage(last') /\ ~CalledIn(calls', "reload_wallpaper")
          => animations'[SelfKey] = NoAnim /\ background' = new_background]_vars

\* C20 (WallpaperSpec): the signal handler reload_wallpaper runs only
\* between two messages, never among the calls of a message's handler, so
\* no handler sees the animations or the pending background change under
\* it.
C20_HandlersNotInterrupted ==
    \A i \in 1..Len(calls) : calls[i].op = "reload_wallpaper" => last.type = "SIGUSR1"

\* The number of icons that fit below y = 50 on a surface H high:
\* floor((H - 50) / h).
Fit(H) == (H - 50) \div ICON_HEIGHT

\* The length of a column: a column holds at least the icon that opens it.
ColumnLen(H) == IF Fit(H) >= 1 THEN Fit(H) ELSE 1

\* The rule of the grid on the offsets pos: the first Fit(H) icons are
\* stacked from y = 50 in steps of the icon height, the next icon opens a
\* column at y = 50, one maximum icon width to the right of the column
\* before, and every later icon stands one column to the right of the icon
\* a column length before it.
GridRule(H, pos) ==
    /\ Len(pos) = NumIcons
    /\ \A k \in 1..NumIcons :
          k <= Fit(H) => pos[k] = [x |-> 20, y |-> 50 + (k - 1) * ICON_HEIGHT]
    /\ Fit(H) + 1 <= NumIcons =>
          pos[Fit(H) + 1] = [x |-> IF Fit(H) = 0 THEN 20 ELSE 20 + ICON_WIDTH, y |-> 50]
    /\ \A k \in 1..NumIcons :
          k > ColumnLen(H) /\ k > Fit(H) + 1 =>
              pos[k] = [x |-> pos[k - ColumnLen(H)].x + ICON_WIDTH,
                        y |-> pos[k - ColumnLen(H)].y]

\* The icons whose drawn cell holds the point (x, y).
CellsAt(H, x, y) ==
    {k \in 1..NumIcons :
        /\ IconOffsets(H)[k].x <= x /\ x < IconOffsets(H)[k].x + ICON_WIDTH
        /\ IconOffsets(H)[k].y <= y /\ y < IconOffsets(H)[k].y + ICON_HEIGHT}

\* C15: on a surface H high the icons are drawn from y = 50 in steps of the
\* icon height h; the (floor((H - 50) / h) + 1)-th icon is the first of a new
\* column, at y = 50 and one maximum icon width to the right; later columns
\* follow the same rule; and the pointer's hit test finds the icon of the
\* cell that rule gives.
C15_IconGridWrap ==
    /\ GridRule(wall_height, IconOffsets(wall_height))
    /\ (last.type = "MOUSE" /\ last.wid = WallpaperWid /\ last.command # "LEAVE"
          /\ last.y < wall_height) =>
           IF CellsAt(wall_height, last.x, last.y) = {}
           THEN focused_icon = None
           ELSE focused_icon \in CellsAt(wall_height, last.x, last.y)

\* The pointer is on the third icon, the first of the second column of a
\* surface that fits two icons in a column.
C15_Witness ==
    /\ wall_height = 210
    /\ last.type = "MOUSE" /\ last.wid = WallpaperWid
    /\ last.x = 120 /\ last.y = 50
    /\ focused_icon = 3

\* C17: the dispatch loop stops only in response to a session-end message,
\* with the panel surface and the wallpaper surface both closed by the step
\* that stops it, and once stopped it handles no further message.
C17_SessionEndOnly ==
    [][/\ (running = "run" /\ running' # "run") =>
             /\ last'.type = "SESSION_END"
             /\ CalledIn(calls', "panel.close")
             /\ CalledIn(calls', "wallpaper.close")
       /\ running # "run" => UNCHANGED vars]_vars

\* The views were rebuilt by the last step: start-up or a notification.
ViewsRebuilt == last.type \in {"START", "NOTIFY"}

\* The panel's view holds exactly the windows of the z-order view, once each.
SameWindows ==
    /\ Len(windows) = Len(windows_zorder)
    /\ Range(windows) = Range(windows_zorder)

\* C18 as stated: after start-up and after every window-list notification
\* the z-order view is the list of advertisements of the latest query in the
\* order reported, and the panel view is the same set of windows sorted by
\* window name.
C18_ViewsByName ==
    ViewsRebuilt =>
        /\ windows_zorder = last.ads
        /\ SameWindows
        /\ \A i \in 1..(Len(windows) - 1) :
              ~StrLess(WindowName(windows[i + 1]), WindowName(windows[i]))

\* C18 amended: the panel view is that set sorted by window id.
C18_ViewsByWid ==
    ViewsRebuilt =>
        /\ windows_zorder = last.ads
        /\ SameWindows
        /\ \A i \in 1..(Len(windows) - 1) : windows[i] < windows[i + 1]

\* A notification reported three windows in an order that is not theirs by
\* id.
C18_Witness ==
    /\ last.type = "NOTIFY"
    /\ last.ads = <<3, 1, 2>>
    /\ windows = <<1, 2, 3>>

\* The kinds of message the loop has a branch for.
ConsumedKinds ==
    {"SESSION_END", "NOTIFY", "TIMER_TICK", "KEY", "WELCOME", "RESIZE_OFFER", "MOUSE",
     "FOCUS_CHANGE"}

\* The window ids of this client's surfaces.
OwnSurfaces ==
    {PanelWid, WallpaperWid} \cup menus
    \cup (IF app_runner.open THEN {RunnerWid} ELSE {})

\* msg is of no consumed kind, or a resize offer, pointer event or focus
\* change for a window that is none of this client's surfaces.
Foreign(msg) ==
    /\ HandlesMessage(msg)
    /\ \/ msg.type \notin ConsumedKinds
       \/ /\ msg.type \in {"RESIZE_OFFER", "MOUSE", "FOCUS_CHANGE"}
          /\ msg.wid \notin OwnSurfaces

\* C19: a message of a kind other than the eight consumed kinds, and a
\* resize offer, pointer event or focus change whose window id is none of
\* this client's surfaces, leaves the whole session state as it was and
\* makes no call: nothing is repainted.
C19_ForeignIgnored ==
    [][Foreign(last') =>
          /\ calls' = <<>>
          /\ forwarded' = <<>>
          /\ UNCHANGED <<dispVars, panelVars, volVars, wallVars, hovered_menu>>]_vars

\* A pointer event of a foreign window arrived while the session was in the
\* middle of a tab switch with a menu open and a widget focused.
C19_Witness ==
    /\ last.type = "MOUSE" /\ last.wid = OtherWid
    /\ calls = <<>>
    /\ tabbing /\ menus # {} /\ focused_widget # None

\* The controller whose handler a call of the loop is; "none" for the
\* loop's own functions (launch_app, os.waitpid).
Controller(op) ==
    IF op \in {"panel.close", "panel.draw", "panel.mouse_action", "panel.finish_resize",
               "panel.resize", "toggle_visibility", "appmenu.activate"}
    THEN "panel"
    ELSE IF op \in {"wallpaper.close", "wallpaper.animate", "wallpaper.mouse_action",
                    "wallpaper.finish_resize", "wallpaper.resize"}
    THEN "wallpaper"
    ELSE IF op \in {"alt_tab", "finish_alt_tab"} THEN "alttab"
    ELSE IF op \in {"ApplicationRunnerWindow", "app_runner.draw", "app_runner.key_action"}
    THEN "app_runner"
    ELSE IF op \in {"menu.keyboard_event", "menu.mouse_action", "menu.leave_menu"}
    THEN "menu"
    ELSE "none"

\* The controllers the calls fw of the loop reached.
Controllers(fw) == {Controller(fw[i]) : i \in 1..Len(fw)} \ {"none"}

\* The surfaces the calls cs repainted.
Repainted(cs) ==
    {c \in {"panel", "wallpaper", "app_runner", "alttab"} :
        \/ c = "panel" /\ CalledIn(cs, "panel.draw")
        \/ c = "wallpaper" /\ CalledIn(cs, "wallpaper.draw")
        \/ c = "app_runner" /\ CalledIn(cs, "app_runner.draw")
        \/ c = "alttab" /\ CalledIn(cs, "alttab.draw")}

TabDown(msg) ==
    /\ msg.type = "KEY" /\ msg.keycode = "\t" /\ msg.action = "DOWN"
    /\ "LEFT_ALT" \in msg.modifiers

\* The number of calls of op among cs.
CountCalls(cs, op) == Cardinality({i \in 1..Len(cs) : cs[i].op = op})

\* The index the first Alt+Tab of a switch over n windows selects.
EntryIndex(msg, n) ==
    IF "LEFT_SHIFT" \in msg.modifiers \/ n = 1 THEN 0 ELSE n - 2

\* C21: from idle with N >= 1 windows in the z-order list, the first Alt+Tab
\* key-down enters tabbing with index N - 2 for Tab when N >= 2, and 0 for
\* Shift+Tab or when N = 1, creates the overlay and draws it once.
C21_AltTabEntry ==
    [][(~tabbing /\ Len(windows_zorder) >= 1 /\ TabDown(last') /\ ~ToRunner(last')) =>
          /\ tabbing'
          /\ new_focused' = EntryIndex(last', Len(windows_zorder))
          /\ alttab' = "open"
          /\ CountCalls(calls', "AlttabWindow") = 1
          /\ CountCalls(calls', "alttab.draw") = 1]_vars

\* The first Alt+Tab over three windows selected the middle one and opened
\* the overlay.
C21_Witness ==
    /\ TabDown(last) /\ "LEFT_SHIFT" \notin last.modifiers
    /\ Len(windows_zorder) = 3
    /\ CalledIn(calls, "AlttabWindow")
    /\ tabbing /\ new_focused = 1

\* msg is a pointer event of the panel's surface.
PanelPointer(msg) == msg.type = "MOUSE" /\ msg.wid = PanelWid

\* C22: the panel forwards a pointer event to a widget's mouse_action only
\* when that widget is under the pointer, inside the surface, and was the
\* focused widget before the event; it then repaints iff mouse_action
\* returned a true value; an event that changes the focused widget reaches
\* no mouse_action and always repaints.
C22_PanelMouseDispatch ==
    [][PanelPointer(last') =>
          /\ CalledIn(calls', "mouse_action") =>
                /\ last'.y < PANEL_HEIGHT
                /\ focused_widget # None
                /\ focused_widget' = focused_widget
                /\ focused_widget = WidgetUnderMouse(widgets, panel_width, last'.x)
                /\ calls'[1] = Call("mouse_action", focused_widget)
                /\ CountCalls(calls', "mouse_action") = 1
                /\ running' = "run" =>
                      (CalledIn(calls', "panel.draw") <=>
                          WidgetMouseAction(widgets, focused_widget, last', wl, vol,
                                            windows, menus).ret)
          /\ focused_widget' # focused_widget =>
                /\ ~CalledIn(calls', "mouse_action")
                /\ CalledIn(calls', "panel.draw")]_vars

\* The pointer moved inside the focused window list onto another tile: the
\* event went to the widget's mouse_action and the panel was repainted.
C22_Witness ==
    /\ PanelPointer(last)
    /\ Len(calls) >= 2
    /\ calls[1] = Call("mouse_action", focused_widget)
    /\ CalledIn(calls, "panel.draw")
    /\ widgets[focused_widget].kind = "windowlist"

\* msg is an explicit leave event, or its pointer is at or below the height
\* H of the surface.
LeavesSurface(msg, H) == msg.command = "LEAVE" \/ msg.y >= H

\* C23: after the panel (the wallpaper) handles an explicit leave event or
\* an event whose pointer y is at or below the surface height, no widget
\* (no icon) is focused, whatever the focus was before.
C23_LeaveClearsFocus ==
    [][last'.type = "MOUSE" =>
          /\ (last'.wid = PanelWid /\ LeavesSurface(last', PANEL_HEIGHT)) =>
                focused_widget' = None
          /\ (last'.wid = WallpaperWid /\ LeavesSurface(last', wall_height)) =>
                focused_icon' = None]_vars

\* The index of the window list among the panel's widgets.
ListIndex == CHOOSE i \in 1..Len(widgets) : widgets[i].kind = "windowlist"

\* The width available to the window list at the last draw: the right edge
\* of its extent minus the left edge.
Available == drawn[ListIndex].remaining - drawn[ListIndex].offset

\* min(150, floor(A / n)), replaced by 28 when below 50.
TileWidth(A, n) ==
    LET q == IF A \div n < 150 THEN A \div n ELSE 150
    IN  IF q < 50 THEN 28 ELSE q

\* C24: with n >= 1 known windows and available width A the tile width is
\* min(150, floor(A / n)), replaced by 28 when below 50, the tiles start at
\* the widget's offset, and the n tiles lie inside the widget's room:
\* n * w <= A.
C24_TilesFit ==
    Len(windows) >= 1 =>
        /\ wl.unit_width = TileWidth(Available, Len(windows))
        /\ wl.offset = drawn[ListIndex].offset
        /\ Len(windows) * wl.unit_width <= Available

\* The step ran the window list's mouse_action with a non-empty window list.
ListMouseAction(cs) ==
    /\ Len(windows) >= 1
    /\ Len(cs) >= 1 /\ cs[1] = Call("mouse_action", ListIndex)

\* C25: whenever the window list's mouse_action runs with a non-empty
\* window list, the tile width it divides by is the one a draw computed for
\* that window list and the panel's present layout, an integer >= 28, the
\* division raises nothing, and the window it leaves hovered is one of the
\* window list or none.
C25_TileWidthReady ==
    [][(PanelPointer(last') /\ ListMouseAction(calls')) =>
          /\ wl.unit_width # None
          /\ drawn = DrawExtents(widgets, panel_width)
          /\ wl.unit_width = TileWidth(Available, Len(windows))
          /\ wl.offset = drawn[ListIndex].offset
          /\ wl.unit_width >= 28
          /\ running' = "run"
          /\ wl'.hovered = None \/ wl'.hovered \in Range(windows)]_vars

\* With one window left, the pointer moved inside the window list past the
\* only tile: mouse_action ran and no window is hovered.
C25_Witness ==
    /\ PanelPointer(last) /\ last.x = 433
    /\ ListMouseAction(calls)
    /\ Len(windows) = 1
    /\ wl.unit_width = 150 /\ wl.hovered = None

\* The first flexible widget in iteration order.
FirstFlexible(ws) == CHOOSE i \in Flexibles(ws) : \A j \in Flexibles(ws) : i <= j

\* The width of the extent draw gave widget i.
ExtentWidth(d, i) == d[i].right - d[i].offset

\* C26: with more than one flexible widget in the panel's sequence, the
\* first flexible widget is the one drawn into the remaining-space slot (the
\* room the fixed widgets leave, one pixel more for each later flexible
\* widget, whose width of -1 enters the sum), and every later flexible
\* widget is given an extent of zero or negative width.
C26_LaterFlexiblesEmpty ==
    Cardinality(Flexibles(widgets)) > 1 =>
        /\ drawn[FirstFlexible(widgets)].right = drawn[FirstFlexible(widgets)].remaining
        /\ ExtentWidth(drawn, FirstFlexible(widgets)) =
              panel_width - SumFixed(widgets) + Cardinality(Flexibles(widgets)) - 1
        /\ \A j \in Flexibles(widgets) :
              j # FirstFlexible(widgets) => ExtentWidth(drawn, j) <= 0

\* Two flexible widgets around a fixed one on a panel 5 wide: the first is
\* drawn 4 wide, the last with a width of -1.
C26_Witness ==
    /\ Len(widgets) = 3 /\ Flexibles(widgets) = {1, 3} /\ widgets[2].width = 2
    /\ panel_width = 5
    /\ ExtentWidth(drawn, 1) = 4
    /\ ExtentWidth(drawn, 3) = -1

\* The entry of key k, removed by the step, had run for its full time: more
\* than 0.5 s for an icon's bounce, at least 1.0 s for the cross-fade.
RemovedInTime(k) ==
    (animations[k] # NoAnim /\ animations'[k] = NoAnim) =>
        IF k = SelfKey THEN now' - animations[k] >= CrossFadeTicks
        ELSE now' - animations[k] > BounceTicks

\* C27 (the part a finite run refutes): every animation entry is removed
\* only after its own time has run since its own start, whatever other
\* entries the same step removes; so a cross-fade started by the step is
\* still in the set after it.
C27_AnimationsTimed ==
    [][/\ \A k \in DOMAIN animations : RemovedInTime(k)
       /\ CalledIn(calls', "reload_wallpaper") => animations'[SelfKey] = now']_vars

\* C28: for every unsigned 32-bit level L, the one first read from the
\* device included, volume_up never yields a level lower than L and
\* volume_down never yields a level higher than L.
C28_VolumeMonotone ==
    [][/\ Scrolled(calls', last', "SCROLL_UP") => ~LevelLess(vol'.volume, vol.volume)
       /\ Scrolled(calls', last', "SCROLL_DOWN") => ~LevelLess(vol.volume, vol'.volume)]_vars

\* The last key event is an Alt+F2 key-down.
AltF2Down(msg) ==
    /\ msg.type = "KEY" /\ msg.action = "DOWN"
    /\ msg.keycode = "F2" /\ "LEFT_ALT" \in msg.modifiers

\* C29 (RunnerSpec): at most one runner is open at any time.  A runner is
\* created only by an Alt+F2 key-down that finds none open, and it starts
\* with an empty typed text; the runner closes only on Enter or Escape and
\* the close clears the global reference; while no runner is open no key
\* event is handed to a runner's key_action, and an Alt+F2 key-down then
\* opens a new one.
C29_SingleRunner ==
    [][/\ CalledIn(calls', "ApplicationRunnerWindow") =>
              /\ AltF2Down(last') /\ ~app_runner.open
              /\ CountCalls(calls', "ApplicationRunnerWindow") = 1
              /\ app_runner'.open
              /\ app_runner'.data = <<>> /\ app_runner'.complete = <<>>
              /\ ~app_runner'.completed
       /\ CalledIn(calls', "app_runner.close") =>
              /\ app_runner.open /\ app_runner' = NoRunner
              /\ last'.type = "KEY" /\ last'.action = "DOWN"
              /\ last'.keycode = "ESCAPE" \/ last'.key = "\n"
       /\ app_runner'.open # app_runner.open =>
              \/ CalledIn(calls', "ApplicationRunnerWindow")
              \/ CalledIn(calls', "app_runner.close")
       /\ ~app_runner.open => ~CalledIn(calls', "app_runner.key_action")
       /\ ~app_runner.open /\ AltF2Down(last') =>
              /\ CalledIn(calls', "ApplicationRunnerWindow")
              /\ app_runner'.open /\ app_runner'.data = <<>>]_vars

\* Enter has launched the typed text with its suggestion and closed the
\* runner: the global reference is cleared.
C29_Witness ==
    /\ last.type = "KEY" /\ last.key = "\n"
    /\ CalledIn(calls, "launch_app") /\ CalledIn(calls, "app_runner.close")
    /\ app_runner = NoRunner

\* The runner shows a completion: a suggestion or the completed flag.
Completing(r) == r.complete # <<>> \/ r.completed

\* C30 (RunnerSpec): in every state of the runner, if the suggestion is not
\* empty or the completed flag is true, the typed text followed by the
\* suggestion is one of the names collected from the search path; and an
\* Enter pressed while a completion is shown launches one of those names.
C30_CompletionIsExecutable ==
    /\ [](Completing(app_runner) =>
            app_runner.data \o app_runner.complete \in Range(app_runner.bins))
    /\ [][\A i \in 1..Len(calls') :
             /\ calls'[1].op = "app_runner.key_action"
             /\ calls'[i].op = "launch_app"
             /\ Completing(app_runner)
             => calls'[i].arg.item \in Range(app_runner.bins)]_vars

\* The whole name "ls" is typed: the suggestion is empty and the flag true.
C30_Witness ==
    /\ app_runner.open
    /\ app_runner.data = <<"l", "s">>
    /\ app_runner.complete = <<>> /\ app_runner.completed
    /\ <<"l", "s">> \in Range(app_runner.bins)

\* C31: an Alt+Tab or Alt+Shift+Tab key-down received while the z-order
\* list is empty leaves the tabbing flag, the index and the overlay as they
\* were, and neither creates nor draws an overlay.
C31_EmptyListTabIgnored ==
    [][(Len(windows_zorder) = 0 /\ TabDown(last')) =>
          /\ tabbing' = tabbing
          /\ new_focused' = new_focused
          /\ alttab' = alttab
          /\ ~CalledIn(calls', "AlttabWindow")
          /\ ~CalledIn(calls', "alttab.draw")]_vars

\* A switch was in progress when the last window went away: the next
\* Alt+Tab called alt_tab, which returned at once.
C31_Witness ==
    /\ TabDown(last)
    /\ Len(windows_zorder) = 0
    /\ CalledIn(calls, "alt_tab") /\ ~CalledIn(calls, "alttab.draw")
    /\ tabbing /\ alttab = "open"

====
